---- MODULE Spec2Model ----
(***************************************************************************)
(* Model of the ingest / analyze pipeline of saas-data-analysis-platform.  *)
(*                                                                         *)
(*   - the ingest edge function (normalizer + upsert),                     *)
(*       src/src/components/StarRating.tsx lines 138-336                   *)
(*   - the analysis edge function (batch loop, retry wrapper, patch),      *)
(*       src/unnamed/part_000                                              *)
(*   - the dashboard (fetchRecords, load, triggerAnalyze, SystemHealth),   *)
(*       src/src/App.tsx, src/src/data/types.ts                            *)
(*                                                                         *)
(* Strings are sequences of one-character strings, so that tag stripping,  *)
(* whitespace collapsing, trimming and slicing are computed, not assumed.  *)
(* A JavaScript value is a record [t, v]: t is the typeof tag and v the    *)
(* characters of a string value.                                           *)
(***************************************************************************)
EXTENDS Integers, Sequences, FiniteSets, TLC

VARIABLES
    (* ---- storage (the `records` table) ---- *)
    storage,      \* sequence of rows in insertion order (inserted_at asc); id = index
    schema,       \* which key of the table is the primary key / unique
    now,          \* logical clock behind new Date()
    writes,       \* history: number of PATCHes applied to each row
    (* ---- analysis edge function, one entry per concurrent request ---- *)
    pc,           \* position of the request in handler
    pending,      \* rows returned by supabaseGetPending (ids)
    idx,          \* position of `row` in `for (const row of pending)`
    i,            \* loop variable of callOpenAIWithRetry
    lastErr,      \* lastErr of callOpenAIWithRetry
    ai,           \* result of callOpenAIWithRetry awaiting the patch
    ok,           \* counter `ok`
    fail,         \* counter `fail`
    firstError,   \* firstError
    resp,         \* response of the request
    log,          \* history: outcome class of each finished row of this run
    called,       \* history: rows of this run for which the analyzer was called
    patchReq,     \* history: rows of this run for which a PATCH was sent
    req,          \* history: the request's method and x-selftest header, whether it
                  \* pinged the analyzer and whether it selected the pending rows
    waited,       \* history: the backoff wait the latest step of the request took in
                  \* callOpenAIWithRetry (a sequence of at most one wait)
    (* ---- ingest edge function ---- *)
    ingest,       \* the ingest call just served (NoIngest once another step follows)
    (* ---- normalizer applied to one raw item ---- *)
    item,         \* raw item under normalization
    nrow,         \* result of the handler's loop body for that item
    nphase,       \* "in": item drawn, "out": loop body applied
    (* ---- dashboard (App) ---- *)
    dash,         \* the state of App: records, loading, err, analyzing, analyzeMsg,
                  \* analyzedCount, and as history the response of the last trigger
                  \* and whether the last records fetch succeeded; where its
                  \* handlers are followed await by await also the await at which
                  \* triggerAnalyze stands (tpc), the requests in flight and the
                  \* loads started by the running triggerAnalyze
    view,         \* what App renders below the header: activeTab, and the state of
                  \* DataList while it is mounted (localRecords, filterSentiment,
                  \* sortBy); as history the ratings the user has given
    (* ---- SystemHealth applied to a list of records ---- *)
    health        \* the prop `records` and the statistics computed from it

vars == <<storage, schema, now, writes, pc, pending, idx, i, lastErr, ai, ok, fail,
          firstError, resp, log, called, patchReq, req, waited, ingest,
          item, nrow, nphase, dash, view, health>>

batchVars == <<pc, pending, idx, i, lastErr, ai, ok, fail, firstError, resp,
               log, called, patchReq, req, waited>>
normVars == <<item, nrow, nphase>>
storeVars == <<storage, schema, now, writes>>
ingestVars == <<ingest>>
dashVars == <<dash, view, health>>

(***************************************************************************)
(* Bounds of the model                                                     *)
(***************************************************************************)
\* longest Title / Description drawn for the normalizer
MaxLen == 2
\* stands for the 20_000 character cap of pickContent, scaled to MaxLen
ContentCap == 4
\* stands for the 2000 character ceiling of the last-resort scan
FieldCeil == 2
\* stands for the limit 20 passed to supabaseGetPending
BatchLimit == 2
\* rows the table may hold
MaxRows == 2

\* `tries` default of callOpenAIWithRetry
Tries == 3

(***************************************************************************)
(* JavaScript values and strings                                           *)
(***************************************************************************)
Undef == [t |-> "undefined", v |-> <<>>]
Num == [t |-> "number", v |-> <<>>]
S(chars) == [t |-> "string", v |-> chars]
Null == [t |-> "null", v |-> <<>>]

\* characters matched by \s and removed by trim()
WS == {" ", "\t"}

RECURSIVE DropWs(_)
DropWs(s) ==
    IF s # <<>> /\ Head(s) \in WS THEN DropWs(Tail(s)) ELSE s

RECURSIVE DropWsRight(_)
DropWsRight(s) ==
    IF s # <<>> /\ s[Len(s)] \in WS THEN DropWsRight(SubSeq(s, 1, Len(s) - 1)) ELSE s

\* String.prototype.trim
Trim(s) == DropWsRight(DropWs(s))

\* String.prototype.slice(0, n)
Slice(s, n) == IF Len(s) <= n THEN s ELSE SubSeq(s, 1, n)

\* s.replace(/<[^>]*>/g, " "): each "<" up to the first ">" after it becomes a space
RECURSIVE ReplaceTags(_)
ReplaceTags(s) ==
    IF s = <<>> THEN <<>>
    ELSE IF Head(s) = "<" /\ \E q \in 2..Len(s) : s[q] = ">"
         THEN LET q == CHOOSE q \in 2..Len(s) :
                          s[q] = ">" /\ \A r \in 2..(q - 1) : s[r] # ">"
              IN  <<" ">> \o ReplaceTags(SubSeq(s, q + 1, Len(s)))
         ELSE <<Head(s)>> \o ReplaceTags(Tail(s))

\* s.replace(/\s+/g, " "): each run of whitespace becomes one space
RECURSIVE CollapseWs(_)
CollapseWs(s) ==
    IF s = <<>> THEN <<>>
    ELSE IF Head(s) \in WS THEN <<" ">> \o CollapseWs(DropWs(s))
         ELSE <<Head(s)>> \o CollapseWs(Tail(s))

stripHtml(s) == Trim(CollapseWs(ReplaceTags(s)))

isStr(x) == x.t = "string" /\ Len(Trim(x.v)) > 0

\* Array.prototype.join(sep) over an array of strings
RECURSIVE Join(_, _)
Join(parts, sep) ==
    IF parts = <<>> THEN <<>>
    ELSE IF Len(parts) = 1 THEN parts[1]
         ELSE parts[1] \o sep \o Join(Tail(parts), sep)

\* s.startsWith(p)
StartsWith(s, p) == Len(s) >= Len(p) /\ SubSeq(s, 1, Len(p)) = p

\* s.includes(p)
Includes(s, p) ==
    \E k \in 0..(Len(s) - Len(p)) : SubSeq(s, k + 1, k + Len(p)) = p

(***************************************************************************)
(* Raw items (AnyObj) of the scraping dataset                              *)
(***************************************************************************)
\* Object.entries order of the fields of an item
FieldOrder == <<"Id", "id", "Title", "Description", "SourceName",
                "Published_time", "Date", "Link", "url", "Image", "snippet">>

EmptyItem == [k \in {FieldOrder[n] : n \in 1..Len(FieldOrder)} |-> Undef]

\* get(o, k)
get(o, k) == o[k]

\* new URL(u).hostname: [ok |-> FALSE] when the constructor throws
UrlHostname(u) ==
    LET t == Trim(u)
        colon == {n \in 1..Len(t) : t[n] = ":"}
    IN  IF colon = {} THEN [ok |-> FALSE, host |-> <<>>]
        ELSE LET c == CHOOSE n \in colon : \A m \in colon : n <= m
                 scheme == SubSeq(t, 1, c - 1)
                 rest == SubSeq(t, c + 1, Len(t))
                 special == scheme \in {<<"h","t","t","p">>, <<"h","t","t","p","s">>}
                 slashes == CHOOSE n \in 0..Len(rest) :
                                /\ \A m \in 1..n : rest[m] = "/"
                                /\ (n < Len(rest) => rest[n + 1] # "/")
                 auth == IF special THEN SubSeq(rest, slashes + 1, Len(rest))
                         ELSE IF slashes >= 2 THEN SubSeq(rest, 3, Len(rest))
                         ELSE <<>>
                 stop == {n \in 1..Len(auth) : auth[n] \in {"/", "?", "#"}}
                 host == IF stop = {} THEN auth
                         ELSE SubSeq(auth, 1, (CHOOSE n \in stop : \A m \in stop : n <= m) - 1)
             IN  IF scheme = <<>> \/ \E n \in 1..Len(scheme) : scheme[n] \in WS \cup {"/", "<", ">"}
                 THEN [ok |-> FALSE, host |-> <<>>]
                 ELSE IF special /\ host = <<>> THEN [ok |-> FALSE, host |-> <<>>]
                 ELSE IF \E n \in 1..Len(host) : host[n] \in WS \cup {"<", ">"}
                 THEN [ok |-> FALSE, host |-> <<>>]
                 ELSE [ok |-> TRUE, host |-> host]

\* pickUrl: the first of Link, url that is a non-blank string starting with "http"
pickUrl(o) ==
    IF isStr(get(o, "Link")) /\ StartsWith(get(o, "Link").v, <<"h","t","t","p">>)
    THEN get(o, "Link")
    ELSE IF isStr(get(o, "url")) /\ StartsWith(get(o, "url").v, <<"h","t","t","p">>)
    THEN get(o, "url")
    ELSE Null

\* pickSource
pickSource(o) ==
    IF isStr(get(o, "SourceName")) THEN Trim(get(o, "SourceName").v)
    ELSE LET u == pickUrl(o)
         IN  IF u # Null /\ UrlHostname(u.v).ok THEN UrlHostname(u.v).host
             ELSE <<"u","n","k","n","o","w","n">>

\* raw.trim().replace(" ", "T"): the first space becomes "T".  A Date string is a
\* sequence of lexical tokens (a date, a time, an offset, "T", "Z", " ").
ReplaceFirstSpace(s) ==
    LET sp == {n \in 1..Len(s) : s[n] = " "}
    IN  IF sp = {} THEN s
        ELSE LET n == CHOOSE n \in sp : \A m \in sp : n <= m
             IN  SubSeq(s, 1, n - 1) \o <<"T">> \o SubSeq(s, n + 1, Len(s))

DateTokens == {"2025-11-07", "2025-11-08"}
TimeTokens == {"12:03:48"}
OffsetTokens == {"+02:00", "-05:00"}

\* new Date(iso): the instant, or NaN for a string that is no ISO date-time
ParseDate(iso) ==
    IF Len(iso) = 4 /\ iso[1] \in DateTokens /\ iso[2] = "T"
          /\ iso[3] \in TimeTokens /\ iso[4] = "Z"
    THEN [t |-> "instant", date |-> iso[1], time |-> iso[3], offset |-> "Z"]
    ELSE IF Len(iso) = 2 /\ iso[1] \in DateTokens /\ iso[2] = "Z"
    THEN [t |-> "instant", date |-> iso[1], time |-> "00:00:00", offset |-> "Z"]
    ELSE [t |-> "NaN", date |-> "", time |-> "", offset |-> ""]

\* new Date().toISOString() at logical time n
NowStamp(n) == [t |-> "now", date |-> "", time |-> "", offset |-> "", at |-> n]

\* pickCreatedAt
pickCreatedAt(o, n) ==
    LET raw == get(o, "Date")
    IN  IF isStr(raw) /\ Trim(raw.v) # <<>>
        THEN LET normalized == ReplaceFirstSpace(Trim(raw.v))
                 iso == IF normalized[Len(normalized)] \in {"Z", "z"}
                        THEN normalized ELSE normalized \o <<"Z">>
                 d == ParseDate(iso)
             IN  IF d.t # "NaN" THEN d @@ [at |-> 0] ELSE NowStamp(n)
        ELSE NowStamp(n)

\* pickApifyId: Id ?? id ?? null
pickApifyId(o) ==
    IF get(o, "Id").t \notin {"undefined", "null"} THEN get(o, "Id")
    ELSE IF get(o, "id").t \notin {"undefined", "null"} THEN get(o, "id")
    ELSE Null

SourcePrefix == <<"S","o","u","r","c","e",":"," ">>
PublishedPrefix == <<"P","u","b","l","i","s","h","e","d",":"," ">>
\* the separator " · " (the middle dot is written "." here)
CtxSep == <<" ", ".", " ">>

\* the last-resort scan of pickContent over Object.entries(o)
RECURSIVE ScanFields(_, _)
ScanFields(o, n) ==
    IF n > Len(FieldOrder) THEN <<>>
    ELSE LET k == FieldOrder[n]
             v == o[k]
         IN  IF k # "Image" /\ isStr(v) /\ Len(v.v) <= FieldCeil
             THEN <<v.v>> \o ScanFields(o, n + 1)
             ELSE ScanFields(o, n + 1)

\* the parts collected from Title, Description and the context line
TargetedParts(o) ==
    LET title == get(o, "Title")
        desc == get(o, "Description")
        srcName == get(o, "SourceName")
        published == get(o, "Published_time")
        ctx == (IF isStr(srcName) THEN <<SourcePrefix \o srcName.v>> ELSE <<>>)
               \o (IF isStr(published) THEN <<PublishedPrefix \o published.v>> ELSE <<>>)
    IN  (IF isStr(title) THEN <<title.v>> ELSE <<>>)
        \o (IF isStr(desc) THEN <<desc.v>> ELSE <<>>)
        \o (IF Len(ctx) > 0 THEN <<Join(ctx, CtxSep)>> ELSE <<>>)

\* the text of pickContent before stripHtml
ContentParts(o) ==
    LET parts == TargetedParts(o)
    IN  IF Len(Trim(Join(parts, <<" ">>))) = 0
        THEN parts \o ScanFields(o, 1)
        ELSE parts

\* pickContent returning the stripped text without the final slice
pickContent_NoSlice(o) ==
    stripHtml(Trim(Join(ContentParts(o), <<" ">>)))

\* pickContent
pickContent(o) ==
    Slice(stripHtml(Trim(Join(ContentParts(o), <<" ">>))), ContentCap)

\* the loop body without `if (!content) continue`
RowsOf_NoSkip(it, n) ==
    << [apify_item_id |-> pickApifyId(it), source |-> pickSource(it),
        url |-> pickUrl(it), content |-> pickContent(it),
        created_at |-> pickCreatedAt(it, n)] >>

\* the body of the handler's `for (const it of items)`: the rows pushed for one item
RowsOf(it, n) ==
    LET content == pickContent(it)
    IN  IF content = <<>> THEN <<>>
        ELSE << [apify_item_id |-> pickApifyId(it),
                 source |-> pickSource(it),
                 url |-> pickUrl(it),
                 content |-> content,
                 created_at |-> pickCreatedAt(it, n)] >>

\* rows pushed for a list of items
RECURSIVE NormalizeAll(_, _)
NormalizeAll(items, n) ==
    IF items = <<>> THEN <<>>
    ELSE RowsOf(Head(items), n) \o NormalizeAll(Tail(items), n)

(***************************************************************************)
(* The normalizer applied to one raw item                                  *)
(***************************************************************************)
Alphabet == {"a", "<", ">", " ", "\t"}

\* the strings over Alphabet of length at most n
StringsUpTo(n) == UNION {[1..k -> Alphabet] : k \in 0..n}

\* a string of n letters
Letters(c, n) == [k \in 1..n |-> c]

HttpH == <<"h","t","t","p",":","/","/","h">>

\* values of Title and of Description
TextValues == {Undef, Num} \cup {S(s) : s \in StringsUpTo(MaxLen)}

\* the other fields of the items drawn
OtherFields ==
    { EmptyItem,
      [EmptyItem EXCEPT !.SourceName = S(<<"s">>)],
      [EmptyItem EXCEPT !.Published_time = S(<<"p">>)],
      [EmptyItem EXCEPT !.SourceName = S(<<"s">>), !.Published_time = S(<<"p">>)],
      [EmptyItem EXCEPT !.snippet = S(<<"x">>), !.Id = S(<<"a">>), !.Link = S(HttpH)],
      [EmptyItem EXCEPT !.snippet = S(Letters("x", FieldCeil + 1)), !.Image = S(<<"i">>)],
      [EmptyItem EXCEPT !.Image = S(<<"i">>)],
      [EmptyItem EXCEPT !.SourceName = S(<<"\t">>),
                        !.Date = S(<<"2025-11-07", " ", "12:03:48">>)] }

NormItems ==
    { [o EXCEPT !.Title = t, !.Description = d] :
          o \in OtherFields, t \in TextValues, d \in TextValues }

NoRow == <<>>

\* the analysis slots
Slots == {1, 2}

NoErr == [kind |-> "none", status |-> 0, text |-> "plain"]
NoAi == [summary |-> Null, keywords |-> Null, sentiment |-> Null,
         sentiment_score |-> Null]
\* a response of the analysis function; body names which of its JSON bodies it is
Resp(st, b, p, f, fe) ==
    [status |-> st, body |-> b, processed |-> p, failed |-> f, firstError |-> fe]
NoResp == Resp(0, "none", 0, 0, NoErr)
\* the counts of an ingest response
Counts(nf, nn, ni, keys) ==
    [fetchedCount |-> nf, normalizedCount |-> nn, insertedCount |-> ni,
     sampleKeys |-> keys]
NoCounts == Counts(0, 0, 0, <<>>)
\* history of an ingest call: the request's method, the number of provider
\* fetches and of upsert requests it made, whether the provider and storage
\* answered with success, the items fetched, whether its payload carried the
\* external id of a row analyzed earlier, how many rows the table gained and how
\* many rows merge-on-external-id would add
NoHist == [method |-> "none", fetches |-> 0, providerUp |-> TRUE, fetched |-> <<>>,
           upserts |-> 0, storageUp |-> TRUE, reingested |-> FALSE,
           added |-> 0, newKeys |-> 0]
\* a handler whose catch block answers 200
IngestResp_ErrorAs200(st, b, c, h) ==
    [status |-> IF st = 500 THEN 200 ELSE st, body |-> b] @@ c @@ h

\* an ingest call: its response (status, which JSON body, the counts) and its history
IngestResp(st, b, c, h) == [status |-> st, body |-> b] @@ c @@ h
NoIngest == IngestResp(0, "none", NoCounts, NoHist)

\* the state of App after construction (the useState defaults)
NoTrigger == [kind |-> "none", status |-> 0, processed |-> 0, failed |-> 0,
              firstError |-> FALSE]
NoMsg == [kind |-> "null", count |-> 0]
DashInit ==
    [records |-> Null, loading |-> TRUE, err |-> FALSE, analyzing |-> FALSE,
     analyzeMsg |-> NoMsg, analyzedCount |-> Null,
     trigger |-> NoTrigger, fetchOk |-> TRUE,
     tpc |-> "idle", inflight |-> [fetch |-> 0, post |-> 0], reloads |-> 0]

\* nothing rendered yet: the data tab is active, DataList is not mounted
ViewInit ==
    [activeTab |-> "data", mounted |-> FALSE, localRecords |-> <<>>,
     filterSentiment |-> "all", sortBy |-> "date", given |-> {}]

\* SystemHealth not rendered
NoStats == [rendered |-> FALSE]
NoHealth == [records |-> <<>>, stats |-> NoStats]

\* the request an analysis slot serves
Req(method, selftest, pinged, selected) ==
    [method |-> method, selftest |-> selftest, pinged |-> pinged, selected |-> selected]
NoReq == Req("none", FALSE, FALSE, FALSE)

BatchIdle ==
    /\ pc = [s \in Slots |-> "idle"]
    /\ pending = [s \in Slots |-> <<>>]
    /\ idx = [s \in Slots |-> 0]
    /\ i = [s \in Slots |-> 0]
    /\ lastErr = [s \in Slots |-> NoErr]
    /\ ai = [s \in Slots |-> NoAi]
    /\ ok = [s \in Slots |-> 0]
    /\ fail = [s \in Slots |-> 0]
    /\ firstError = [s \in Slots |-> NoErr]
    /\ resp = [s \in Slots |-> NoResp]
    /\ log = [s \in Slots |-> <<>>]
    /\ called = [s \in Slots |-> {}]
    /\ patchReq = [s \in Slots |-> {}]
    /\ req = [s \in Slots |-> NoReq]
    /\ waited = [s \in Slots |-> <<>>]

InitNorm ==
    /\ item \in NormItems
    /\ nrow = NoRow
    /\ nphase = "in"
    /\ storage = <<>>
    /\ schema = "pk_id"
    /\ now = 0
    /\ writes = <<>>
    /\ BatchIdle
    /\ dash = DashInit
    /\ view = ViewInit
    /\ health = NoHealth
    /\ ingest = NoIngest

\* one pass of the handler's loop body over the item
Normalize ==
    /\ nphase = "in"
    /\ nrow' = RowsOf(item, now)
    /\ nphase' = "out"
    /\ UNCHANGED <<item, storeVars, batchVars, ingestVars, dashVars>>

NextNorm == Normalize

SpecNorm == InitNorm /\ [][NextNorm]_vars

(***************************************************************************)
(* Storage: the `records` table behind the REST interface                  *)
(***************************************************************************)
\* The table definition is not part of the repository.  upsertRows sends
\* `Prefer: resolution=merge-duplicates` and no on_conflict parameter, so the
\* REST interface resolves conflicts on the primary key of the table:
\*   "pk_id"        id is the primary key, apify_item_id is unconstrained
\*   "pk_id_unique" id is the primary key, apify_item_id carries UNIQUE
\*   "pk_ext"       apify_item_id is the primary key (hence NOT NULL)
Schemas == {"pk_id", "pk_id_unique", "pk_ext"}

\* a row as inserted: the analysis columns take their default, null
NewRow(r) ==
    [apify_item_id |-> r.apify_item_id, source |-> r.source, url |-> r.url,
     content |-> r.content, created_at |-> r.created_at,
     summary |-> Null, keywords |-> Null, sentiment |-> Null,
     sentiment_score |-> Null, analyzed_at |-> Null]

\* a destructive replace: the conflicting row is rewritten from the payload alone
MergeRow_Replace(old, r) == NewRow(r)

\* ON CONFLICT DO UPDATE SET <the columns of the payload>
MergeRow(old, r) ==
    [old EXCEPT !.apify_item_id = r.apify_item_id, !.source = r.source,
                !.url = r.url, !.content = r.content,
                !.created_at = r.created_at]

HasKey(r) == r.apify_item_id.t \notin {"null", "undefined"}

\* positions of the stored rows with the external id of r
Holders(store, r) ==
    {n \in 1..Len(store) : store[n].apify_item_id = r.apify_item_id}

\* two rows of one payload carry the same external id
PayloadRepeatsKey(rows) ==
    \E m, n \in 1..Len(rows) :
        m # n /\ HasKey(rows[m]) /\ rows[m].apify_item_id = rows[n].apify_item_id

RECURSIVE MergeAll(_, _)
MergeAll(store, rows) ==
    IF rows = <<>> THEN store
    ELSE LET r == Head(rows)
             h == Holders(store, r)
         IN  IF h = {} THEN MergeAll(Append(store, NewRow(r)), Tail(rows))
             ELSE LET n == CHOOSE n \in h : TRUE
                  IN  MergeAll([store EXCEPT ![n] = MergeRow(store[n], r)], Tail(rows))

RECURSIVE InsertAll(_, _)
InsertAll(store, rows) ==
    IF rows = <<>> THEN store
    ELSE InsertAll(Append(store, NewRow(Head(rows))), Tail(rows))

\* the table after the POST of upsertRows, or the statement's failure
Upsert(store, rows, sch) ==
    IF sch = "pk_ext"
    THEN IF (\E n \in 1..Len(rows) : ~HasKey(rows[n])) \/ PayloadRepeatsKey(rows)
         THEN [ok |-> FALSE, store |-> store]
         ELSE [ok |-> TRUE, store |-> MergeAll(store, rows)]
    ELSE IF sch = "pk_id_unique"
            /\ (PayloadRepeatsKey(rows)
                \/ \E n \in 1..Len(rows) : HasKey(rows[n]) /\ Holders(store, rows[n]) # {})
         THEN [ok |-> FALSE, store |-> store]
         ELSE [ok |-> TRUE, store |-> InsertAll(store, rows)]

(***************************************************************************)
(* The ingest edge function                                                *)
(***************************************************************************)
ItemA == [EmptyItem EXCEPT !.Id = S(<<"a">>), !.Title = S(<<"t">>)]
ItemA2 == [EmptyItem EXCEPT !.Id = S(<<"a">>), !.Title = S(<<"u">>), !.Link = S(HttpH)]
ItemN == [EmptyItem EXCEPT !.Title = S(<<"n">>)]
ItemBlank == [EmptyItem EXCEPT !.Id = S(<<"b">>), !.Title = S(<<" ">>)]
\* an item without text: a blank Title and an Image
ItemEmpty == [EmptyItem EXCEPT !.Title = S(<<" ">>), !.Image = S(<<"i">>)]

\* the item lists fetchApifyItems may return
Fetches == {<<>>, <<ItemA>>, <<ItemA2>>, <<ItemN>>, <<ItemBlank>>, <<ItemEmpty>>,
            <<ItemA, ItemA2>>, <<ItemEmpty, ItemN>>}

\* history: the payload carries the external id of a row analyzed earlier
HitsAnalyzed(store, rows) ==
    \E n \in 1..Len(rows) : \E m \in Holders(store, rows[n]) :
        HasKey(rows[n]) /\ store[m].analyzed_at # Null

\* history: rows the payload would add if rows were merged on the external id: one
\* per row without an id, one per distinct id the table does not hold yet
NewKeys(store, rows) ==
    Cardinality({n \in 1..Len(rows) : ~HasKey(rows[n])})
    + Cardinality({rows[n].apify_item_id : n \in
                      {n \in 1..Len(rows) : HasKey(rows[n]) /\ Holders(store, rows[n]) = {}}})

\* NormalizeAll over the item lists and clock values of the model, computed once
Normalized == [f \in Fetches |-> [n \in 0..(2 * MaxRows) |-> NormalizeAll(f, n)]]

\* Object.keys(o): the fields of the item that are present
KeysOf(o) == SelectSeq(FieldOrder, LAMBDA k : o[k].t # "undefined")

\* Object.keys(items[0] ?? {}).slice(0, 50)
SampleKeys(items) ==
    IF items = <<>> THEN <<>> ELSE Slice(KeysOf(items[1]), 50)

\* handler of the ingest function: one request from arrival to response
Ingest(method, fetchOk, items, upsertOk) ==
    /\ \E rows \in {Normalized[items][now]} :
       \E up \in {Upsert(storage, rows, schema)} :
       \E h0 \in {[NoHist EXCEPT !.method = method]} :
       \E h1 \in {[h0 EXCEPT !.fetches = 1, !.providerUp = fetchOk]} :
       \E h2 \in {[h1 EXCEPT !.fetched = items]} :
       \E h3 \in {[h2 EXCEPT !.upserts = 1, !.storageUp = upsertOk,
                             !.reingested = HitsAnalyzed(storage, rows),
                             !.newKeys = NewKeys(storage, rows)]} :
           IF method # "POST"
           THEN /\ ingest' = IngestResp(405, "Method Not Allowed", NoCounts, h0)
                /\ UNCHANGED <<storage, writes>>
           ELSE IF ~fetchOk
           THEN /\ ingest' = IngestResp(500, "error", NoCounts, h1)
                /\ UNCHANGED <<storage, writes>>
           ELSE IF rows = <<>>
           THEN /\ ingest' = IngestResp(200, "diagnostic",
                                        Counts(Len(items), 0, 0, SampleKeys(items)), h2)
                /\ UNCHANGED <<storage, writes>>
           ELSE IF ~upsertOk \/ ~up.ok
           THEN /\ ingest' = IngestResp(500, "error", NoCounts, h3)
                /\ UNCHANGED <<storage, writes>>
           ELSE /\ Len(up.store) <= MaxRows
                /\ ingest' = IngestResp(200, "counts",
                                        Counts(Len(items), Len(rows), Len(rows), <<>>),
                                        [h3 EXCEPT !.added = Len(up.store) - Len(storage)])
                /\ storage' = up.store
                /\ writes' = writes \o [n \in 1..(Len(up.store) - Len(storage)) |-> 0]
    /\ UNCHANGED <<schema, now, batchVars, normVars, dashVars>>

\* the requests the ingest function may get and what its collaborators answer
IngestInputs ==
    {<<"GET", TRUE, <<>>, TRUE>>, <<"POST", FALSE, <<>>, TRUE>>}
    \cup {<<"POST", TRUE, items, u>> : items \in Fetches, u \in BOOLEAN}

(***************************************************************************)
(* The analyzer (chat-completion endpoint) and its responses               *)
(***************************************************************************)
Arr(seq) == [t |-> "array", v |-> seq]
N(n) == [t |-> "number", v |-> <<n>>]
Word(w) == [t |-> "string", v |-> <<w>>]

\* n keyword strings
Kw(n) == [k \in 1..n |-> Word("k")]

\* sentiment_score is kept in hundredths: N(50) is 0.5, N(-100) is -1

\* JSON objects the analyzer may answer with (the parsed `content`)
AiGood == [summary |-> Word("s"), keywords |-> Arr(Kw(8)),
           sentiment |-> Word("negative"), sentiment_score |-> N(-100)]
AiFewKeywords == [AiGood EXCEPT !.keywords = Arr(Kw(2)),
                                !.sentiment = Word("positive")]
AiManyKeywords == [AiGood EXCEPT !.keywords = Arr(Kw(8) \o <<Num>>),
                                 !.sentiment = Word("neutral")]
AiScoreOutOfRange == [AiGood EXCEPT !.sentiment_score = N(150)]
AiNoKeywords == [AiGood EXCEPT !.keywords = Undef]
AiSummaryNotString == [AiGood EXCEPT !.summary = Num]
AiSentimentUnknown == [AiGood EXCEPT !.sentiment = Word("mixed")]
AiScoreNotNumber == [AiGood EXCEPT !.sentiment_score = Word("0.5")]

AiContents == {AiGood, AiFewKeywords, AiManyKeywords, AiScoreOutOfRange,
               AiNoKeywords, AiSummaryNotString, AiSentimentUnknown, AiScoreNotNumber}

Sentiments == {Word("positive"), Word("neutral"), Word("negative")}

\* the `if` of callOpenAI lines 165-170, negated: the shape callOpenAI accepts
ShapeAccepted(parsed) ==
    /\ parsed.summary.t = "string"
    /\ parsed.keywords.t = "array"
    /\ parsed.sentiment \in Sentiments
    /\ parsed.sentiment_score.t = "number"

\* What a response body (or the analyzer's `content`) may hold, as far as the
\* handler's tests on error messages can tell: nothing of note, the word
\* insufficient_quota, a text such as "upstream 503: busy", or the text "OpenAI 429:".
Texts == {"plain", "insufficient_quota", " 503:", "OpenAI 429:"}

Http(st, x) == [kind |-> "http", status |-> st, text |-> x, parsed |-> NoAi]

\* outcomes of one callOpenAI: a 200 with JSON content, a non-2xx status, a 200
\* whose content is no JSON (JSON.parse throws), or a rejected fetch
AnalyzerResponses ==
    {[kind |-> "ok", status |-> 200, text |-> "plain", parsed |-> c] :
         c \in AiContents \ {AiNoKeywords}}
    \cup {[kind |-> "ok", status |-> 200, text |-> x, parsed |-> AiNoKeywords] :
         x \in Texts}
    \cup {Http(400, "plain"), Http(400, "insufficient_quota"), Http(400, " 503:"),
          Http(429, "plain"), Http(429, "insufficient_quota"),
          Http(500, "plain"), Http(500, "insufficient_quota")}
    \cup {[kind |-> "parse", status |-> 200, text |-> "plain", parsed |-> NoAi],
          [kind |-> "network", status |-> 0, text |-> "plain", parsed |-> NoAi]}

\* the Error thrown by callOpenAI for a response, NoErr when it returns:
\*   http    `OpenAI ${status}: ${body}`
\*   shape   `OpenAI returned unexpected shape: ${content}`
\*   parse   the SyntaxError of JSON.parse
\*   network the TypeError of fetch
callOpenAI(r) ==
    IF r.kind = "http" THEN [kind |-> "http", status |-> r.status, text |-> r.text]
    ELSE IF r.kind = "network" THEN [kind |-> "network", status |-> 0, text |-> "plain"]
    ELSE IF r.kind = "parse" THEN [kind |-> "parse", status |-> 0, text |-> r.text]
    ELSE IF ~ShapeAccepted(r.parsed) THEN [kind |-> "shape", status |-> 0, text |-> r.text]
    ELSE NoErr

\* msg.includes("insufficient_quota")
MsgIncludesQuota(e) == e.text = "insufficient_quota"

\* / (429|5\d{2}):/.test(msg)
MsgMatchesRetry(e) ==
    \/ e.kind \in {"http", "patch"} /\ (e.status = 429 \/ e.status \in 500..599)
    \/ e.text \in {" 503:", "OpenAI 429:"}

\* /OpenAI 429:/.test(msg)
MsgMatchesOpenAI429(e) ==
    \/ e.kind = "http" /\ e.status = 429
    \/ e.text = "OpenAI 429:"

\* baseDelayMs of callOpenAIWithRetry
BaseDelayMs == 300
\* the jitter is Math.floor(Math.random() * 200)
JitterSpan == 200
Jitters == {0, JitterSpan - 1}

\* the catch block of callOpenAIWithRetry reaches the setTimeout: the message is
\* not a quota message and matches / (429|5\d{2}):/
Backoff(e) == ~MsgIncludesQuota(e) /\ MsgMatchesRetry(e)

\* the wait after the failed attempt of loop index n (attempt n + 1), in ms, and
\* as history whether another attempt follows it
Wait(n, jitter, next) ==
    [after |-> n + 1, delay |-> BaseDelayMs * 2^n + jitter, next |-> next]

\* the catch block of callOpenAIWithRetry: TRUE when the loop goes on to attempt n + 1
RetryAfter(e, n) ==
    /\ ~MsgIncludesQuota(e)
    /\ MsgMatchesRetry(e)
    /\ n + 1 < Tries

\* a break on quota exhaustion only
StopsBatch_QuotaOnly(e) == MsgIncludesQuota(e)

\* the `break` of the handler's catch block, line 250
StopsBatch(e) == MsgIncludesQuota(e) \/ MsgMatchesOpenAI429(e)

(***************************************************************************)
(* The analysis edge function                                              *)
(***************************************************************************)
\* supabaseGetPending(limit): ids of the rows with analyzed_at null, oldest first
RECURSIVE PendingFrom(_, _, _)
PendingFrom(store, n, limit) ==
    IF n > Len(store) \/ limit = 0 THEN <<>>
    ELSE IF store[n].analyzed_at = Null
         THEN <<n>> \o PendingFrom(store, n + 1, limit - 1)
         ELSE PendingFrom(store, n + 1, limit)

\* the select without its limit
supabaseGetPending_NoLimit(store, limit) == PendingFrom(store, 1, Len(store))

supabaseGetPending(store, limit) == PendingFrom(store, 1, limit)

\* a PATCH whose body lacks analyzed_at
PatchedRow_NoTimestamp(row, a, n) ==
    [row EXCEPT !.summary = a.summary, !.keywords = a.keywords,
                !.sentiment = a.sentiment, !.sentiment_score = a.sentiment_score]

\* the row after the PATCH of supabasePatchAnalysis
PatchedRow(row, a, n) ==
    [row EXCEPT !.summary = a.summary, !.keywords = a.keywords,
                !.sentiment = a.sentiment, !.sentiment_score = a.sentiment_score,
                !.analyzed_at = NowStamp(n)]

\* how the history records a failed row: by what failed, not by the message text
FailureClass(e) ==
    IF e.text = "insufficient_quota" \/ (e.kind = "http" /\ e.status = 429)
    THEN "quota_or_429" ELSE "other"

\* the request leaves the `for` loop body: next row, or the response of line 254
LoopOn(s, okN, failN, feN, stop) ==
    IF stop \/ idx[s] = Len(pending[s])
    THEN /\ pc' = [pc EXCEPT ![s] = "done"]
         /\ resp' = [resp EXCEPT ![s] = Resp(200, "counts", okN, failN, feN)]
         /\ UNCHANGED idx
    ELSE /\ pc' = [pc EXCEPT ![s] = "call"]
         /\ idx' = [idx EXCEPT ![s] = idx[s] + 1]
         /\ UNCHANGED resp

\* the catch block of the handler, lines 243-251
RowFailed(s, e) ==
    LET feN == IF firstError[s] = NoErr THEN e ELSE firstError[s]
    IN  /\ firstError' = [firstError EXCEPT ![s] = feN]
        /\ fail' = [fail EXCEPT ![s] = fail[s] + 1]
        /\ log' = [log EXCEPT ![s] = Append(log[s], FailureClass(e))]
        /\ LoopOn(s, ok[s], fail[s] + 1, feN, StopsBatch(e))

\* a request arrives at the handler: everything up to the first row's analyzer call.
\* fetchOk: the fetch the request makes first (the self-test ping, or the select of
\* the pending rows) gets an answer
AnalyzeStart(s, method, selftest, fetchOk) ==
    /\ pc[s] \in {"idle", "done"}
    /\ ok' = [ok EXCEPT ![s] = 0]
    /\ fail' = [fail EXCEPT ![s] = 0]
    /\ firstError' = [firstError EXCEPT ![s] = NoErr]
    /\ i' = [i EXCEPT ![s] = 0]
    /\ lastErr' = [lastErr EXCEPT ![s] = NoErr]
    /\ waited' = [waited EXCEPT ![s] = <<>>]
    /\ ai' = [ai EXCEPT ![s] = NoAi]
    /\ log' = [log EXCEPT ![s] = <<>>]
    /\ patchReq' = [patchReq EXCEPT ![s] = {}]
    /\ req' = [req EXCEPT ![s] = Req(method, selftest,
                                     method # "OPTIONS" /\ selftest,
                                     method = "POST" /\ ~selftest)]
    /\ LET rows == supabaseGetPending(storage, BatchLimit)
           answer(r) == /\ pc' = [pc EXCEPT ![s] = "done"]
                        /\ resp' = [resp EXCEPT ![s] = r]
                        /\ pending' = [pending EXCEPT ![s] = <<>>]
                        /\ idx' = [idx EXCEPT ![s] = 0]
                        /\ called' = [called EXCEPT ![s] = {}]
       IN  IF method = "OPTIONS"
           THEN answer(Resp(200, "ok", 0, 0, NoErr))
           ELSE IF selftest
           THEN IF fetchOk THEN answer(Resp(200, "selftest", 0, 0, NoErr))
                ELSE answer(Resp(500, "selftest error", 0, 0, NoErr))
           ELSE IF method # "POST"
           THEN answer(Resp(405, "Method Not Allowed", 0, 0, NoErr))
           ELSE IF ~fetchOk
           THEN answer(Resp(500, "error", 0, 0, NoErr))
           ELSE IF rows = <<>>
           THEN answer(Resp(200, "no pending rows", 0, 0, NoErr))
           ELSE /\ pc' = [pc EXCEPT ![s] = "call"]
                /\ pending' = [pending EXCEPT ![s] = rows]
                /\ idx' = [idx EXCEPT ![s] = 1]
                /\ called' = [called EXCEPT ![s] = {}]
                /\ UNCHANGED resp
    /\ ingest' = NoIngest
    /\ UNCHANGED <<storeVars, normVars, dashVars>>

\* one attempt of callOpenAIWithRetry for the current row, with what follows it up
\* to the next await: the backoff and next attempt, the PATCH, or the catch block
AnalyzerCall(s, r, jitter) ==
    /\ pc[s] = "call"
    /\ called' = [called EXCEPT ![s] = called[s] \cup {idx[s]}]
    /\ LET e == callOpenAI(r)
       IN  IF e = NoErr
           THEN /\ ai' = [ai EXCEPT ![s] = r.parsed]
                /\ pc' = [pc EXCEPT ![s] = "patch"]
                /\ i' = [i EXCEPT ![s] = 0]
                /\ lastErr' = [lastErr EXCEPT ![s] = NoErr]
                /\ waited' = [waited EXCEPT ![s] = <<>>]
                /\ UNCHANGED <<idx, ok, fail, firstError, resp, log>>
           ELSE IF Backoff(e)
           THEN /\ waited' = [waited EXCEPT ![s] =
                                  <<Wait(i[s], jitter, RetryAfter(e, i[s]))>>]
                /\ IF RetryAfter(e, i[s])
                   THEN /\ i' = [i EXCEPT ![s] = i[s] + 1]
                        /\ lastErr' = [lastErr EXCEPT ![s] = e]
                        /\ UNCHANGED <<pc, idx, ai, ok, fail, firstError, resp, log>>
                   ELSE /\ i' = [i EXCEPT ![s] = 0]
                        /\ lastErr' = [lastErr EXCEPT ![s] = NoErr]
                        /\ RowFailed(s, e)
                        /\ UNCHANGED <<ai, ok>>
           ELSE /\ i' = [i EXCEPT ![s] = 0]
                /\ lastErr' = [lastErr EXCEPT ![s] = NoErr]
                /\ waited' = [waited EXCEPT ![s] = <<>>]
                /\ RowFailed(s, e)
                /\ UNCHANGED <<ai, ok>>
    /\ ingest' = NoIngest
    /\ UNCHANGED <<pending, patchReq, req, storeVars, normVars, dashVars>>

\* supabasePatchAnalysis for the current row and what follows it in the loop body
PatchRow(s, patchOk) ==
    /\ pc[s] = "patch"
    /\ patchReq' = [patchReq EXCEPT ![s] = patchReq[s] \cup {idx[s]}]
    /\ ai' = [ai EXCEPT ![s] = NoAi]
    /\ waited' = [waited EXCEPT ![s] = <<>>]
    /\ LET id == pending[s][idx[s]]
       IN  IF patchOk
           THEN /\ storage' = [storage EXCEPT ![id] = PatchedRow(storage[id], ai[s], now)]
                /\ writes' = [writes EXCEPT ![id] = writes[id] + 1]
                /\ now' = now + 1
                /\ ok' = [ok EXCEPT ![s] = ok[s] + 1]
                /\ log' = [log EXCEPT ![s] = Append(log[s], "ok")]
                /\ LoopOn(s, ok[s] + 1, fail[s], firstError[s], FALSE)
                /\ UNCHANGED <<fail, firstError>>
           ELSE /\ RowFailed(s, [kind |-> "patch", status |-> 500, text |-> "plain"])
                /\ UNCHANGED <<storage, writes, now, ok>>
    /\ ingest' = NoIngest
    /\ UNCHANGED <<schema, pending, i, lastErr, called, req, normVars, dashVars>>

(***************************************************************************)
(* The pipeline: ingest calls and concurrent analysis requests             *)
(***************************************************************************)
\* the requests the analysis function may get (method, x-selftest header) and
\* whether the fetch of the pending rows succeeds
AnalyzeInputs ==
    {<<"OPTIONS", FALSE, TRUE>>, <<"GET", TRUE, TRUE>>, <<"GET", FALSE, TRUE>>,
     <<"POST", TRUE, TRUE>>, <<"GET", TRUE, FALSE>>,
     <<"POST", FALSE, FALSE>>, <<"POST", FALSE, TRUE>>}

Init ==
    /\ storage = <<>>
    /\ writes = <<>>
    /\ schema \in Schemas
    /\ now = 0
    /\ BatchIdle
    /\ dash = DashInit
    /\ view = ViewInit
    /\ health = NoHealth
    /\ ingest = NoIngest
    /\ item = EmptyItem
    /\ nrow = NoRow
    /\ nphase = "out"

\* In the pipeline as a whole the analyzer answers with one of a few responses;
\* the batch loop is explored against every response in SpecBatch below.
PipelineResponses ==
    {[kind |-> "ok", status |-> 200, text |-> "plain", parsed |-> AiGood],
     [kind |-> "ok", status |-> 200, text |-> "plain", parsed |-> AiFewKeywords],
     Http(400, "plain")}

PipelineRequests == {<<"POST", FALSE, FALSE>>, <<"POST", FALSE, TRUE>>}

\* ingest calls and analysis requests, one analysis request at a time
Next ==
    \/ \E in \in IngestInputs : Ingest(in[1], in[2], in[3], in[4])
    \/ \E in \in PipelineRequests : AnalyzeStart(1, in[1], in[2], in[3])
    \/ \E r \in PipelineResponses : AnalyzerCall(1, r, 0)
    \/ \E p \in BOOLEAN : PatchRow(1, p)

Spec == Init /\ [][Next]_vars

(***************************************************************************)
(* Concurrent analysis requests                                            *)
(***************************************************************************)
RaceIngestInputs == {<<"POST", TRUE, <<ItemN>>, TRUE>>}

InitRace == Init /\ schema = "pk_id"

NextRace ==
    \/ \E in \in RaceIngestInputs : Ingest(in[1], in[2], in[3], in[4])
    \/ \E s \in Slots, in \in PipelineRequests : AnalyzeStart(s, in[1], in[2], in[3])
    \/ \E s \in Slots, r \in PipelineResponses : AnalyzerCall(s, r, 0)
    \/ \E s \in Slots, p \in BOOLEAN : PatchRow(s, p)

SpecRace == InitRace /\ [][NextRace]_vars

(***************************************************************************)
(* The batch loop of one analysis request against every analyzer response  *)
(***************************************************************************)
\* the table as ingest calls of n items without an external id leave it
PendingTable(n) == [k \in 1..n |-> NewRow(RowsOf(ItemN, 0)[1])]

InitBatch ==
    /\ \E n \in 1..MaxRows : storage = PendingTable(n) /\ writes = [k \in 1..n |-> 0]
    /\ schema = "pk_id"
    /\ now = 0
    /\ BatchIdle
    /\ dash = DashInit
    /\ view = ViewInit
    /\ health = NoHealth
    /\ ingest = NoIngest
    /\ item = EmptyItem
    /\ nrow = NoRow
    /\ nphase = "out"

NextBatch ==
    \/ \E in \in AnalyzeInputs : AnalyzeStart(1, in[1], in[2], in[3])
    \/ \E r \in AnalyzerResponses : AnalyzerCall(1, r, 0)
    \/ \E p \in BOOLEAN : PatchRow(1, p)

SpecBatch == InitBatch /\ [][NextBatch]_vars

(***************************************************************************)
(* The retries of callOpenAIWithRetry and their backoff                    *)
(***************************************************************************)
\* the analyzer accepts the row, fails in a way that is retried (503, a 429 that
\* is no quota message), or fails in a way that is not (400, quota exhausted)
RetryResponses ==
    {[kind |-> "ok", status |-> 200, text |-> "plain", parsed |-> AiGood],
     Http(503, "plain"), Http(429, "plain"), Http(429, "insufficient_quota"),
     Http(400, "plain"), Http(400, "insufficient_quota")}

NextRetry ==
    \/ \E f \in BOOLEAN : AnalyzeStart(1, "POST", FALSE, f)
    \/ \E r \in RetryResponses, jitter \in Jitters : AnalyzerCall(1, r, jitter)
    \/ \E p \in BOOLEAN : PatchRow(1, p)

SpecRetry == InitBatch /\ [][NextRetry]_vars

(***************************************************************************)
(* Repeated analysis runs over a queue longer than the batch limit         *)
(***************************************************************************)
\* the analyzer accepts the row, refuses it, or reports the quota exhausted
QueueResponses ==
    {[kind |-> "ok", status |-> 200, text |-> "plain", parsed |-> AiGood],
     Http(400, "plain"), Http(400, "insufficient_quota")}

InitQueue ==
    /\ \E n \in 1..(BatchLimit + 1) :
           storage = PendingTable(n) /\ writes = [k \in 1..n |-> 0]
    /\ schema = "pk_id"
    /\ now = 0
    /\ BatchIdle
    /\ dash = DashInit
    /\ view = ViewInit
    /\ health = NoHealth
    /\ ingest = NoIngest
    /\ item = EmptyItem
    /\ nrow = NoRow
    /\ nphase = "out"

\* the trigger: a POST to the analysis function
Trigger == \E f \in BOOLEAN : AnalyzeStart(1, "POST", FALSE, f)
\* the analyzer answers the call for the current row
Answer == \E r \in QueueResponses : AnalyzerCall(1, r, 0)
\* storage answers the PATCH
Patch == \E p \in BOOLEAN : PatchRow(1, p)

NextQueue == Trigger \/ Answer \/ Patch

SpecQueue == InitQueue /\ [][NextQueue]_vars

\* the trigger is invoked again and again, and every request to the analyzer and
\* to storage is answered
SpecQueueFair ==
    SpecQueue /\ WF_vars(Trigger) /\ WF_vars(Answer) /\ WF_vars(Patch)

(***************************************************************************)
(* Ingest calls against any table the pipeline can leave                   *)
(***************************************************************************)
\* rows as ingest stores them, pending or analyzed
StoredRows ==
    LET fresh == {NewRow(RowsOf(it, 0)[1]) : it \in {ItemA, ItemA2, ItemN}}
    IN  fresh \cup {PatchedRow(r, a, 0) : r \in fresh, a \in {AiGood, AiFewKeywords}}

\* the table obeys the constraints of the schema
Obeys(sch, t) ==
    sch = "pk_id" \/
        /\ \A m, n \in 1..Len(t) :
               (m # n /\ HasKey(t[m])) => t[m].apify_item_id # t[n].apify_item_id
        /\ sch = "pk_ext" => \A n \in 1..Len(t) : HasKey(t[n])

InitIngest ==
    /\ schema \in Schemas
    /\ storage \in UNION {[1..n -> StoredRows] : n \in 0..MaxRows}
    /\ Obeys(schema, storage)
    /\ writes = [n \in 1..Len(storage) |-> IF storage[n].analyzed_at = Null THEN 0 ELSE 1]
    /\ now = Cardinality({n \in 1..Len(storage) : storage[n].analyzed_at # Null})
    /\ BatchIdle
    /\ dash = DashInit
    /\ view = ViewInit
    /\ health = NoHealth
    /\ ingest = NoIngest
    /\ item = EmptyItem
    /\ nrow = NoRow
    /\ nphase = "out"

NextIngest == \E in \in IngestInputs : Ingest(in[1], in[2], in[3], in[4])

SpecIngest == InitIngest /\ [][NextIngest]_vars

(***************************************************************************)
(* Properties of the normalizer                                            *)
(***************************************************************************)
Fields == {FieldOrder[n] : n \in 1..Len(FieldOrder)}

\* the item holds non-blank text in no field at all
NoTextAnywhere(o) == \A k \in Fields : ~isStr(o[k])

\* C9: the loop body pushes a row only for non-empty content: an item with no
\* non-blank text in any field yields no row, and the content of every row pushed
\* is non-empty and at most ContentCap (20,000 in the source) characters long.
C9_RowOnlyForNonEmptyContent ==
    nphase = "out" =>
        /\ Len(nrow) <= 1
        /\ (NoTextAnywhere(item) => nrow = NoRow)
        /\ (pickContent(item) = <<>> => nrow = NoRow)
        /\ \A n \in 1..Len(nrow) :
              /\ nrow[n].content # <<>>
              /\ Len(nrow[n].content) <= ContentCap

\* C9 witness: an item whose only strings are blank has gone through the loop body
\* and produced no row.
C9_Witness ==
    /\ nphase = "out"
    /\ item.Title = S(<<" ">>)
    /\ item.Description = S(<<"\t", " ">>)
    /\ NoTextAnywhere(item)
    /\ nrow = NoRow

\* C10: for an item providing both a Title and a Description, the content of the
\* row contains both texts with tags stripped and whitespace collapsed, unless the
\* cut at ContentCap (20,000 in the source) removed them.
C10_ContentContainsTitleAndDescription ==
    (nphase = "out" /\ isStr(item.Title) /\ isStr(item.Description)) =>
        \A n \in 1..Len(nrow) :
            Len(nrow[n].content) < ContentCap =>
                /\ Includes(nrow[n].content, stripHtml(item.Title.v))
                /\ Includes(nrow[n].content, stripHtml(item.Description.v))

(***************************************************************************)
(* Properties of the batch loop (SpecBatch: the request on slot 1)         *)
(***************************************************************************)
\* rows of the run that the history records as analyzed and patched
OkCount(l) == Cardinality({k \in 1..Len(l) : l[k] = "ok"})

\* C1: when row k of the batch fails on insufficient_quota or on an analyzer 429
\* that outlived the retries, row k is counted in failed, the loop ends there: no
\* analyzer call and no PATCH for the rows after k, which stay pending, and the
\* response counts the rows 1..k only.
C1_QuotaOr429EndsBatch ==
    \A k \in 1..Len(log[1]) :
        log[1][k] = "quota_or_429" =>
            /\ k = Len(log[1])
            /\ pc[1] = "done"
            /\ called[1] \subseteq 1..k
            /\ patchReq[1] \subseteq 1..(k - 1)
            /\ \A j \in (k + 1)..Len(pending[1]) :
                   storage[pending[1][j]].analyzed_at = Null
            /\ resp[1].status = 200
            /\ resp[1].processed = OkCount(log[1])
            /\ resp[1].failed = k - OkCount(log[1])
            /\ resp[1].failed >= 1

\* C1 witness: a batch of two rows ended on the first row, which failed on quota
\* or on a 429; the second row was never sent to the analyzer and is pending.
C1_Witness ==
    /\ pc[1] = "done"
    /\ Len(pending[1]) = 2
    /\ log[1] = <<"quota_or_429">>
    /\ called[1] = {1}
    /\ resp[1].processed = 0
    /\ resp[1].failed = 1
    /\ storage[pending[1][2]].analyzed_at = Null

\* the response of an attempt is a 429 or 5xx that is no quota exhaustion
RetryableByStatus(e) ==
    /\ e.kind = "http"
    /\ e.status = 429 \/ e.status \in 500..599
    /\ e.text # "insufficient_quota"

\* C2: callOpenAIWithRetry makes at most 3 analyzer calls for a row, and a further
\* attempt follows a failed one only if that one failed with a 429 or 5xx response
\* that is no insufficient-quota condition.
C2_RetryOnlyAfter429Or5xx ==
    \A s \in Slots :
        /\ i[s] < Tries
        /\ (pc[s] = "call" /\ i[s] > 0) => RetryableByStatus(lastErr[s])

\* C3: a response that fails the shape validation, whatever text it carries, is
\* not retried: no further analyzer call is pending for the row after it.
C3_ShapeFailureNotRetried ==
    \A s \in Slots :
        ~(pc[s] = "call" /\ i[s] > 0 /\ lastErr[s].kind = "shape")

\* the shape the specification requires of an analysis result
ShapeRequired(row) ==
    /\ row.summary.t = "string"
    /\ row.keywords.t = "array"
    /\ Len(row.keywords.v) \in 3..8
    /\ \A k \in 1..Len(row.keywords.v) : row.keywords.v[k].t = "string"
    /\ row.sentiment \in Sentiments
    /\ row.sentiment_score.t = "number"
    /\ row.sentiment_score.v[1] \in -100..100

\* C4: every row with analyzed_at set has a string summary, 3 to 8 keyword
\* strings, a sentiment of the enum and a sentiment_score within [-1, 1].
C4_AnalyzedRowsWellShaped ==
    \A n \in 1..Len(storage) :
        storage[n].analyzed_at # Null => ShapeRequired(storage[n])

\* C8: once the pending rows are fetched the request is answered 200 with the
\* counts, and the loop ends before the last row only after a failure on
\* insufficient quota or on an analyzer 429.
C8_OnlyQuotaOr429EndsLoopEarly ==
    (pc[1] = "done" /\ pending[1] # <<>>) =>
        /\ resp[1].status = 200
        /\ resp[1].body = "counts"
        /\ resp[1].processed + resp[1].failed = Len(log[1])
        /\ \/ Len(log[1]) = Len(pending[1])
           \/ log[1][Len(log[1])] = "quota_or_429"

(***************************************************************************)
(* Properties of concurrent analysis requests (SpecRace)                   *)
(***************************************************************************)
\* C5: under any interleaving of analysis requests no row has its analysis fields
\* and analyzed_at written more than once, and no row is with the analyzer for two
\* requests at a time.
C5_AnalysisWrittenOnce ==
    /\ \A n \in 1..Len(writes) : writes[n] <= 1
    /\ ~(/\ pc[1] \in {"call", "patch"}
         /\ pc[2] \in {"call", "patch"}
         /\ pending[1][idx[1]] = pending[2][idx[2]])

(***************************************************************************)
(* Properties of ingest                                                    *)
(***************************************************************************)
\* C6: storage holds at most one row per non-null external id: an ingest call that
\* reaches storage succeeds, and adds one row per item without an external id and
\* one per external id the table did not hold, merging the others.
C6_OneRowPerExternalId ==
    /\ \A m, n \in 1..Len(storage) :
           (m # n /\ HasKey(storage[m])) =>
               storage[m].apify_item_id # storage[n].apify_item_id
    /\ (ingest.upserts = 1 /\ ingest.storageUp) =>
           /\ ingest.status = 200
           /\ ingest.added = ingest.newKeys

\* the analysis columns of a row
Analysis(row) ==
    <<row.summary, row.keywords, row.sentiment, row.sentiment_score, row.analyzed_at>>

\* C7: an ingest call changes the analysis columns of no row that exists: every
\* row is still there with the same summary, keywords, sentiment, sentiment_score
\* and analyzed_at.
C7_IngestKeepsAnalysis ==
    [][ingest'.status # 0 =>
          /\ Len(storage') >= Len(storage)
          /\ \A n \in 1..Len(storage) : Analysis(storage'[n]) = Analysis(storage[n])]_vars

\* C7 witness: an ingest call has merged new content into a row analyzed before
\* it, and the row is still analyzed.
C7_Witness ==
    /\ ingest.status = 200
    /\ ingest.reingested
    /\ ingest.added = 0
    /\ \E n \in 1..Len(storage) :
           /\ storage[n].content = <<"u">>
           /\ storage[n].analyzed_at # Null
           /\ storage[n].summary = AiGood.summary

(***************************************************************************)
(* The field pickers applied to one raw item                               *)
(***************************************************************************)
HttpsH == <<"h","t","t","p","s",":","/","/","h","/","p">>
\* a string that starts with "http" and carries no http(s) scheme
HttpxA == <<"h","t","t","p","x",":","a">>
HttpNoHost == <<"h","t","t","p",":","/","/">>
FtpH == <<"f","t","p",":","/","/","h">>

\* values of Link and of url
UrlValues == {Undef, Num, S(HttpH), S(HttpsH), S(HttpxA), S(HttpNoHost), S(FtpH),
              S(<<" ">> \o HttpH)}

\* values of Source Name
SourceValues == {Undef, S(<<" ">>), S(<<" ", "s", "\t">>)}

\* values of Date, as token sequences
DateValues ==
    {Undef, S(<<" ">>), S(<<"soon">>),
     S(<<"2025-11-07", " ", "12:03:48">>),
     S(<<"2025-11-08", "T", "12:03:48">>),
     S(<<"2025-11-07", "T", "12:03:48", "Z">>),
     S(<<"2025-11-07", "T", "12:03:48", "+02:00">>),
     S(<<"2025-11-08", " ", "12:03:48", "-05:00">>)}

PickItems ==
    { [EmptyItem EXCEPT !.Title = S(<<"t">>), !.Link = l, !.url = u,
                        !.SourceName = sn, !.Date = d] :
          l \in UrlValues, u \in {Undef, S(HttpH), S(HttpxA)},
          sn \in SourceValues, d \in DateValues }

InitPick ==
    /\ item \in PickItems
    /\ nrow = NoRow
    /\ nphase = "in"
    /\ storage = <<>>
    /\ schema = "pk_id"
    /\ now \in {1, 2}
    /\ writes = <<>>
    /\ BatchIdle
    /\ dash = DashInit
    /\ view = ViewInit
    /\ health = NoHealth
    /\ ingest = NoIngest

NextPick == Normalize

SpecPick == InitPick /\ [][NextPick]_vars

\* the string starts with the scheme http:// or https://
HasHttpScheme(x) ==
    /\ x.t = "string"
    /\ \/ StartsWith(x.v, <<"h","t","t","p",":","/","/">>)
       \/ StartsWith(x.v, <<"h","t","t","p","s",":","/","/">>)

\* the first of Link, url that is a string with an http(s) scheme, else null
FirstSchemeUrl(o) ==
    IF HasHttpScheme(o.Link) THEN o.Link
    ELSE IF HasHttpScheme(o.url) THEN o.url
    ELSE Null

\* C11: the url of a normalized row is null or the first of Link, url that is a
\* string starting with http:// or https://; no row has a url without that prefix.
C11_UrlHasHttpScheme ==
    nphase = "out" =>
        \A n \in 1..Len(nrow) :
            /\ nrow[n].url = FirstSchemeUrl(item)
            /\ nrow[n].url # Null => HasHttpScheme(nrow[n].url)

\* C12: the source of a normalized row is non-empty: the trimmed Source Name when
\* that is a non-blank string, else the hostname of the picked url, else "unknown".
C12_SourceNonEmpty ==
    nphase = "out" =>
        \A n \in 1..Len(nrow) :
            /\ nrow[n].source # <<>>
            /\ isStr(item.SourceName) => nrow[n].source = Trim(item.SourceName.v)
            /\ (~isStr(item.SourceName) /\ nrow[n].url = Null)
                   => nrow[n].source = <<"u","n","k","n","o","w","n">>

\* the Date string has one of the forms date-time, with "T" or a space between
\* date and time and with an optional zone
DateForm(x) ==
    /\ x.t = "string"
    /\ Len(x.v) \in {3, 4}
    /\ x.v[1] \in DateTokens /\ x.v[2] \in {" ", "T"} /\ x.v[3] \in TimeTokens
    /\ Len(x.v) = 4 => x.v[4] \in OffsetTokens \cup {"Z"}

\* the instant such a string denotes, UTC when it carries no zone
InstantOf(x) ==
    [t |-> "instant", date |-> x.v[1], time |-> x.v[3],
     offset |-> IF Len(x.v) = 4 THEN x.v[4] ELSE "Z", at |-> 0]

\* C13: a Date of the form "YYYY-MM-DD HH:mm:ss" or ISO-8601 (with Z, with an
\* explicit offset, or without zone) gives created_at that instant, UTC assumed
\* only without a zone; the capture time is used only when Date is absent or
\* cannot be parsed.
C13_CreatedAtIsTheDate ==
    nphase = "out" =>
        \A n \in 1..Len(nrow) :
            /\ DateForm(item.Date) => nrow[n].created_at = InstantOf(item.Date)
            /\ nrow[n].created_at.t = "now" => ~DateForm(item.Date)

(***************************************************************************)
(* Properties of the ingest handler's responses                            *)
(***************************************************************************)
\* the ingest call just served was a POST whose provider fetch succeeded
Fetched == ingest.status # 0 /\ ingest.method = "POST" /\ ingest.providerUp

\* C14: when no fetched item survives normalization (zero items included) the
\* ingest call writes nothing to storage and answers 200 with insertedCount 0,
\* normalizedCount 0, fetchedCount the number of items fetched and the keys of a
\* sample item; every successful response has normalizedCount <= fetchedCount.
C14_DiagnosticWhenNothingSurvives ==
    /\ (Fetched /\ \A k \in 1..Len(ingest.fetched) : pickContent(ingest.fetched[k]) = <<>>)
           => /\ ingest.status = 200
              /\ ingest.upserts = 0
              /\ ingest.added = 0
              /\ ingest.insertedCount = 0
              /\ ingest.normalizedCount = 0
              /\ ingest.fetchedCount = Len(ingest.fetched)
              /\ \/ ingest.fetched = <<>> /\ ingest.sampleKeys = <<>>
                 \/ \E k \in 1..Len(ingest.fetched) :
                        ingest.sampleKeys = KeysOf(ingest.fetched[k])
    /\ ingest.status = 200 => ingest.normalizedCount <= ingest.fetchedCount

\* C14 witness: the one item fetched had a blank Title and an Image; the call
\* answered with the diagnostic body and made no upsert request.
C14_Witness ==
    /\ ingest.status = 200
    /\ ingest.body = "diagnostic"
    /\ ingest.fetched = <<ItemEmpty>>
    /\ ingest.fetchedCount = 1
    /\ ingest.sampleKeys = <<"Title", "Image">>
    /\ ingest.upserts = 0

\* C15: a failed provider fetch ends the ingest call with 500 {error} and without
\* a storage write; a failed upsert ends it with 500 {error}; the failed request
\* is made once; a non-POST request gets 405 with no provider fetch and no
\* storage write.
C15_IngestFailuresAreFatal ==
    [][ingest'.status # 0 =>
          /\ (ingest'.method = "POST" /\ ~ingest'.providerUp) =>
                 /\ ingest'.status = 500 /\ ingest'.body = "error"
                 /\ ingest'.fetches = 1 /\ ingest'.upserts = 0
                 /\ storage' = storage
          /\ (ingest'.method = "POST" /\ ingest'.upserts > 0 /\ ~ingest'.storageUp) =>
                 /\ ingest'.status = 500 /\ ingest'.body = "error"
                 /\ ingest'.fetches = 1 /\ ingest'.upserts = 1
                 /\ storage' = storage
          /\ ingest'.method # "POST" =>
                 /\ ingest'.status = 405
                 /\ ingest'.fetches = 0 /\ ingest'.upserts = 0
                 /\ storage' = storage]_vars

\* C15 witness: an ingest call fetched one item, its upsert was refused by storage
\* and it answered 500 after one upsert request, the table as it was.
C15_Witness ==
    /\ ingest.status = 500
    /\ ingest.body = "error"
    /\ ingest.method = "POST"
    /\ ingest.fetched = <<ItemN>>
    /\ ingest.upserts = 1
    /\ ~ingest.storageUp
    /\ Len(storage) = 1

(***************************************************************************)
(* Properties of the analysis handler's preamble                           *)
(***************************************************************************)
\* C16: a request to the analysis function whose method is neither POST nor
\* OPTIONS is answered 405 and makes no analyzer call and no storage access,
\* whatever its headers; an OPTIONS request is answered 200 and makes none either.
C16_OnlyPostReachesAnalyzerOrStorage ==
    \A s \in Slots :
        pc[s] = "done" =>
            /\ req[s].method \notin {"POST", "OPTIONS", "none"} =>
                   /\ resp[s].status = 405
                   /\ ~req[s].pinged /\ ~req[s].selected
                   /\ called[s] = {} /\ patchReq[s] = {}
            /\ req[s].method = "OPTIONS" =>
                   /\ resp[s].status = 200 /\ resp[s].body = "ok"
                   /\ ~req[s].pinged /\ ~req[s].selected
                   /\ called[s] = {} /\ patchReq[s] = {}

(***************************************************************************)
(* The dashboard (App): fetchRecords, load, triggerAnalyze, SystemHealth   *)
(***************************************************************************)
\* rows of the tables the dashboard reads
MaxDash == 4
\* `limit` of fetchRecords
FetchLimit == 200

\* sentiment scores of the analyzed rows, in hundredths
DashScores == {-150, 70, 150}

AiScored(n) == [AiGood EXCEPT !.sentiment = Word("positive"), !.sentiment_score = N(n)]

PendingRow == NewRow(RowsOf(ItemN, 0)[1])

DashRows == {PendingRow} \cup {PatchedRow(PendingRow, AiScored(n), 0) : n \in DashScores}

Reverse(seq) == [n \in 1..Len(seq) |-> seq[Len(seq) + 1 - n]]

\* confidence without Math.max / Math.min
Confidence_NoClamp(score) ==
    IF score.t = "number" THEN score.v[1] + 100 ELSE 100

\* the confidence of fetchRecords, in two-hundredths: (score + 1) / 2 clamped to
\* [0, 1] for a number, 0.5 otherwise
Confidence(score) ==
    IF score.t = "number"
    THEN LET x == score.v[1] + 100
             m == IF x < 200 THEN x ELSE 200
         IN  IF m > 0 THEN m ELSE 0
    ELSE 100

\* a ?? b
Coalesce(a, b) == IF a.t \in {"null", "undefined"} THEN b ELSE a

\* the callback of rows.map in fetchRecords
MapRow(row, id) ==
    [id |-> id, source |-> row.source, url |-> row.url, content |-> row.content,
     created_at |-> row.created_at,
     analysis |-> [summary |-> Coalesce(row.summary, S(<<>>)),
                   keywords |-> Coalesce(row.keywords, Arr(<<>>)),
                   sentiment |-> Coalesce(row.sentiment, Word("neutral")),
                   confidence |-> Confidence(row.sentiment_score)],
     userRating |-> Undef]

\* fetchRecords: the newest FetchLimit rows, newest first, mapped to the UI shape
fetchRecords(store) ==
    Slice(Reverse([n \in 1..Len(store) |-> MapRow(store[n], n)]), FetchLimit)

\* the truthiness test of records.filter((r) => r.analysis)
Truthy(x) == x # Undef /\ x # Null

RECURSIVE SumConfidence(_)
SumConfidence(records) ==
    IF records = <<>> THEN 0
    ELSE Head(records).analysis.confidence + SumConfidence(Tail(records))

\* getSystemStatus; avgConfidence > 0.85 is sum / total > 170 two-hundredths
getSystemStatus(totalRecords, analyzedRecords, sumConfidence) ==
    IF totalRecords = 0 THEN "No Data"
    ELSE IF analyzedRecords = totalRecords /\ sumConfidence > 170 * totalRecords
    THEN "healthy"
    ELSE "degraded"

\* a / b of two integers as JavaScript numbers: the fraction, NaN for 0 / 0 and
\* Infinity for a nonzero numerator over 0
Quotient(a, b) ==
    [t |-> IF b # 0 THEN "number" ELSE IF a = 0 THEN "NaN" ELSE "Infinity",
     num |-> a, den |-> b]

\* every record counted as rated
Rated_All(r) == TRUE

\* the truthiness test of records.filter((r) => r.userRating)
Rated(r) == r.userRating.t = "number" /\ r.userRating.v[1] # 0

RECURSIVE SumRating(_)
SumRating(records) ==
    IF records = <<>> THEN 0
    ELSE (IF Head(records).userRating.t = "number"
          THEN Head(records).userRating.v[1] ELSE 0)
         + SumRating(Tail(records))

\* the number of records of a sentiment
CountSentiment(records, w) ==
    Cardinality({n \in 1..Len(records) : records[n].analysis.sentiment = Word(w)})

\* the statistics of SystemHealth and the ratios it renders
SystemHealth(records) ==
    LET totalRecords == Len(records)
        analyzedRecords == Cardinality({n \in 1..Len(records) : Truthy(records[n].analysis)})
        sumConfidence == SumConfidence(records)
        ratedRecords == Cardinality({n \in 1..Len(records) : Rated(records[n])})
    IN  [totalRecords |-> totalRecords, analyzedRecords |-> analyzedRecords,
         sumConfidence |-> sumConfidence,
         avgConfidence |-> Quotient(sumConfidence, totalRecords),
         completion |-> IF totalRecords > 0 THEN Quotient(analyzedRecords, totalRecords)
                        ELSE Quotient(0, 1),
         positiveShare |-> Quotient(CountSentiment(records, "positive"), totalRecords),
         neutralShare |-> Quotient(CountSentiment(records, "neutral"), totalRecords),
         negativeShare |-> Quotient(CountSentiment(records, "negative"), totalRecords),
         ratedRecords |-> ratedRecords,
         avgUserRating |-> IF ratedRecords > 0
                           THEN Quotient(SumRating(SelectSeq(records, Rated)), ratedRecords)
                           ELSE Quotient(0, 1),
         status |-> getSystemStatus(totalRecords, analyzedRecords, sumConfidence)]

(***************************************************************************)
(* DataList                                                                *)
(***************************************************************************)
\* DataList just mounted with the prop `records` (the useState defaults)
Mounted(v, records) ==
    [v EXCEPT !.mounted = TRUE, !.localRecords = records,
              !.filterSentiment = "all", !.sortBy = "date"]

\* the main content of App once `records` is d.records: DataList is rendered on
\* the data tab while there are records; its effect copies a new `records` array
\* into localRecords
Rendered(v, d, newRecords) ==
    IF d.records.t = "array" /\ Len(d.records.v) > 0 /\ v.activeTab = "data"
    THEN IF ~v.mounted THEN Mounted(v, d.records.v)
         ELSE IF newRecords THEN [v EXCEPT !.localRecords = d.records.v]
         ELSE v
    ELSE [ViewInit EXCEPT !.activeTab = v.activeTab, !.given = v.given]

\* the stars of StarRating that get clicked
Stars == {1, 5}
ListStars == {5}

\* handleRatingChange
handleRatingChange(id, rating) ==
    /\ view.mounted
    /\ view' = [view EXCEPT !.localRecords =
                    [n \in 1..Len(@) |-> IF @[n].id = id
                                          THEN [@[n] EXCEPT !.userRating = N(rating)]
                                          ELSE @[n]],
                            !.given = IF \E n \in 1..Len(view.localRecords) :
                                             view.localRecords[n].id = id
                                      THEN {g \in @ : g[1] # id} \cup {<<id, rating>>}
                                      ELSE @]
    /\ UNCHANGED <<storeVars, batchVars, ingestVars, normVars, dash, health>>

SENTIMENTS == {"all", "positive", "neutral", "negative"}
SORT_OPTIONS == {"date", "rating", "confidence"}

\* handleSentimentChange
handleSentimentChange(v) ==
    /\ view.mounted
    /\ view' = [view EXCEPT !.filterSentiment = IF v \in SENTIMENTS THEN v ELSE @]
    /\ UNCHANGED <<storeVars, batchVars, ingestVars, normVars, dash, health>>

\* handleSortChange
handleSortChange(v) ==
    /\ view.mounted
    /\ view' = [view EXCEPT !.sortBy = IF v \in SORT_OPTIONS THEN v ELSE @]
    /\ UNCHANGED <<storeVars, batchVars, ingestVars, normVars, dash, health>>

\* filteredRecords
filteredRecords(localRecords, filterSentiment) ==
    IF filterSentiment = "all" THEN localRecords
    ELSE SelectSeq(localRecords,
                   LAMBDA r : Coalesce(r.analysis.sentiment, Word("neutral"))
                                  = Word(filterSentiment))

\* new Date(created_at).getTime(), in hours after 2025-11-07T00:00Z; the capture
\* times lie after every date of the items
getTime(c) ==
    IF c.t = "instant"
    THEN (IF c.date = "2025-11-07" THEN 0 ELSE 24) + (IF c.time = "00:00:00" THEN 0 ELSE 12)
    ELSE 1000 + c.at

\* b.userRating ?? 0
RatingOrZero(r) == IF r.userRating.t = "number" THEN r.userRating.v[1] ELSE 0

\* the comparator of sortedRecords without its tie-breaker
compare_NoTieBreak(sortBy, a, b) ==
    IF sortBy = "date" THEN getTime(b.created_at) - getTime(a.created_at)
    ELSE IF sortBy = "rating" THEN RatingOrZero(b) - RatingOrZero(a)
    ELSE b.analysis.confidence - a.analysis.confidence

\* the comparator of sortedRecords
compare(sortBy, a, b) ==
    IF sortBy = "date" THEN getTime(b.created_at) - getTime(a.created_at)
    ELSE IF sortBy = "rating" THEN RatingOrZero(b) - RatingOrZero(a)
    ELSE LET ca == a.analysis.confidence
             cb == b.analysis.confidence
         IN  IF cb # ca THEN cb - ca
             ELSE getTime(b.created_at) - getTime(a.created_at)

\* Array.prototype.sort, which is stable: x is put behind the elements that do
\* not sort after it
InsertSorted(x, sorted, sortBy) ==
    LET p == Cardinality({j \in 1..Len(sorted) : compare(sortBy, sorted[j], x) <= 0})
    IN  SubSeq(sorted, 1, p) \o <<x>> \o SubSeq(sorted, p + 1, Len(sorted))

RECURSIVE ArraySort(_, _)
ArraySort(arr, sortBy) ==
    IF arr = <<>> THEN <<>>
    ELSE InsertSorted(arr[Len(arr)], ArraySort(SubSeq(arr, 1, Len(arr) - 1), sortBy), sortBy)

\* sortedRecords
sortedRecords(v) ==
    ArraySort(filteredRecords(v.localRecords, v.filterSentiment), v.sortBy)

MaxList == 3

\* rows of two confidences and two dates
ListRows ==
    {[r EXCEPT !.created_at = NowStamp(t)] :
        r \in {PendingRow, PatchedRow(PendingRow, AiScored(70), 0)}, t \in 0..1}

\* DataList mounted with the records of a table
InitList ==
    /\ storage \in UNION {[1..n -> ListRows] : n \in 0..MaxList}
    /\ writes = [n \in 1..Len(storage) |-> IF storage[n].analyzed_at = Null THEN 0 ELSE 1]
    /\ schema = "pk_id"
    /\ now = 0
    /\ BatchIdle
    /\ dash = DashInit
    /\ view = Mounted(ViewInit, fetchRecords(storage))
    /\ health = NoHealth
    /\ ingest = NoIngest
    /\ item = EmptyItem
    /\ nrow = NoRow
    /\ nphase = "out"

NextList ==
    \/ \E id \in 1..MaxList, rating \in ListStars : handleRatingChange(id, rating)
    \/ \E v \in SENTIMENTS : handleSentimentChange(v)
    \/ \E v \in SORT_OPTIONS : handleSortChange(v)

SpecList == InitList /\ [][NextList]_vars

(***************************************************************************)
(* App with its two tabs: the data list and the health view                *)
(***************************************************************************)
\* the tab buttons
setActiveTab(tab) ==
    /\ view' = Rendered([view EXCEPT !.activeTab = tab], dash, FALSE)
    /\ UNCHANGED <<storeVars, batchVars, ingestVars, normVars, dash, health>>

\* the statistics the health tab shows, NoStats while SystemHealth is not rendered
HealthShown ==
    IF view.activeTab = "health" /\ dash.records.t = "array" /\ Len(dash.records.v) > 0
    THEN SystemHealth(dash.records.v) @@ [rendered |-> TRUE]
    ELSE NoStats

\* the state of App after load()
Loaded(d, store, fetchOk) ==
    [d EXCEPT !.loading = FALSE, !.err = ~fetchOk, !.fetchOk = fetchOk,
              !.records = IF fetchOk THEN Arr(fetchRecords(store)) ELSE @]

\* load: a Refresh, or the effect after mount
Load(fetchOk) ==
    /\ ~dash.analyzing
    /\ dash' = Loaded(dash, storage, fetchOk)
    /\ view' = Rendered(view, dash', fetchOk)
    /\ UNCHANGED <<storeVars, batchVars, ingestVars, normVars, health>>

\* the table after an analysis run that patched the oldest p pending rows
RECURSIVE PatchOldest(_, _, _, _)
PatchOldest(store, n, p, t) ==
    IF n > Len(store) \/ p = 0 THEN store
    ELSE IF store[n].analyzed_at = Null
         THEN PatchOldest([store EXCEPT ![n] = PatchedRow(store[n], AiScored(70), t)],
                          n + 1, p - 1, t)
         ELSE PatchOldest(store, n + 1, p, t)

\* what the analysis function (or the network) answers to the dashboard's POST
TriggerResponses(store) ==
    LET np == Len(supabaseGetPending(store, BatchLimit))
    IN  {[kind |-> "network", status |-> 0, processed |-> 0, failed |-> 0,
          firstError |-> FALSE],
         [kind |-> "http", status |-> 500, processed |-> 0, failed |-> 0,
          firstError |-> FALSE]}
        \cup {[kind |-> "http", status |-> 200, processed |-> pf[1], failed |-> pf[2],
               firstError |-> pf[2] > 0] :
                   pf \in {x \in (0..1) \X (0..1) : x[1] + x[2] <= np}}

\* triggerAnalyze: the POST to the analysis function, the notification, the reload
TriggerAnalyze(r, fetchOk) ==
    /\ ~dash.loading /\ ~dash.analyzing
    /\ r \in TriggerResponses(storage)
    /\ storage' = PatchOldest(storage, 1, r.processed, now)
    /\ writes' = [n \in 1..Len(storage) |->
                     IF storage'[n] # storage[n] THEN writes[n] + 1 ELSE writes[n]]
    /\ now' = now + r.processed
    /\ IF r.kind = "network" \/ r.status \notin 200..299
       THEN /\ dash' = [dash EXCEPT !.analyzing = FALSE, !.analyzedCount = Null,
                                    !.analyzeMsg = [kind |-> "failed", count |-> 0],
                                    !.trigger = r]
            /\ view' = view
       ELSE /\ dash' = Loaded([dash EXCEPT !.analyzing = FALSE,
                                           !.analyzedCount = N(r.processed),
                                           !.analyzeMsg = [kind |-> "ok", count |-> r.processed],
                                           !.trigger = r],
                              storage', fetchOk)
            /\ view' = Rendered(view, dash', fetchOk)
    /\ UNCHANGED <<schema, batchVars, ingestVars, normVars, health>>

InitDash ==
    /\ storage \in UNION {[1..n -> DashRows] : n \in 0..MaxDash}
    /\ writes = [n \in 1..Len(storage) |-> IF storage[n].analyzed_at = Null THEN 0 ELSE 1]
    /\ schema = "pk_id"
    /\ now = 0
    /\ BatchIdle
    /\ dash = DashInit
    /\ view = ViewInit
    /\ health = NoHealth
    /\ ingest = NoIngest
    /\ item = EmptyItem
    /\ nrow = NoRow
    /\ nphase = "out"

NextDash ==
    \/ \E f \in BOOLEAN : Load(f)
    \/ \E r \in TriggerResponses(storage), f \in BOOLEAN : TriggerAnalyze(r, f)

SpecDash == InitDash /\ [][NextDash]_vars

(***************************************************************************)
(* App followed await by await: clicks, and the answers to its requests    *)
(***************************************************************************)
MaxApp == 2

\* the tables behind the dashboard: pending rows and analyzed rows
AppTables ==
    UNION {[1..n -> {PendingRow, PatchedRow(PendingRow, AiScored(70), 0)}] : n \in 0..MaxApp}

\* a button that is disabled only while loading
Disabled_LoadingOnly(d) == d.loading

\* disabled={loading || analyzing} of the Analyze and Refresh buttons
Disabled(d) == d.loading \/ d.analyzing

\* load up to its await: the Refresh button
ClickRefresh ==
    /\ ~Disabled(dash)
    /\ dash' = [dash EXCEPT !.loading = TRUE, !.err = FALSE, !.inflight.fetch = @ + 1]
    /\ UNCHANGED <<storeVars, batchVars, ingestVars, normVars, view, health>>

\* triggerAnalyze up to its first await: the Analyze button
ClickAnalyze ==
    /\ ~Disabled(dash)
    /\ dash' = [dash EXCEPT !.analyzing = TRUE, !.analyzeMsg = NoMsg,
                            !.analyzedCount = Null, !.tpc = "post",
                            !.inflight.post = @ + 1, !.reloads = 0]
    /\ UNCHANGED <<storeVars, batchVars, ingestVars, normVars, view, health>>

\* the POST is answered: triggerAnalyze up to the await of load(), or through its
\* catch and finally
TriggerReturns(r) ==
    /\ dash.tpc = "post" /\ dash.inflight.post > 0
    /\ r \in TriggerResponses(storage)
    /\ storage' = PatchOldest(storage, 1, r.processed, now)
    /\ writes' = [n \in 1..Len(storage) |->
                     IF storage'[n] # storage[n] THEN writes[n] + 1 ELSE writes[n]]
    /\ now' = now + r.processed
    /\ IF r.kind = "network" \/ r.status \notin 200..299
       THEN dash' = [dash EXCEPT !.analyzing = FALSE, !.analyzedCount = Null,
                                 !.analyzeMsg = [kind |-> "failed", count |-> 0],
                                 !.trigger = r, !.tpc = "idle", !.inflight.post = @ - 1]
       ELSE dash' = [dash EXCEPT !.analyzedCount = N(r.processed),
                                 !.analyzeMsg = [kind |-> "ok", count |-> r.processed],
                                 !.trigger = r, !.tpc = "reload",
                                 !.loading = TRUE, !.err = FALSE,
                                 !.inflight.post = @ - 1, !.inflight.fetch = @ + 1,
                                 !.reloads = @ + 1]
    /\ UNCHANGED <<schema, batchVars, ingestVars, normVars, view, health>>

\* fetchRecords is answered: load after its await and, when triggerAnalyze awaits
\* this load, the finally of triggerAnalyze
FetchReturns(fetchOk) ==
    /\ dash.inflight.fetch > 0
    /\ dash' = LET d == Loaded([dash EXCEPT !.inflight.fetch = @ - 1], storage, fetchOk)
               IN  IF dash.tpc = "reload"
                   THEN [d EXCEPT !.analyzing = FALSE, !.tpc = "idle"]
                   ELSE d
    /\ view' = Rendered(view, dash', fetchOk)
    /\ UNCHANGED <<storeVars, batchVars, ingestVars, normVars, health>>

\* App mounted: the effect has called load()
InitClicks ==
    /\ storage \in AppTables
    /\ writes = [n \in 1..Len(storage) |-> IF storage[n].analyzed_at = Null THEN 0 ELSE 1]
    /\ schema = "pk_id"
    /\ now = 0
    /\ BatchIdle
    /\ dash = [DashInit EXCEPT !.inflight.fetch = 1]
    /\ view = ViewInit
    /\ health = NoHealth
    /\ ingest = NoIngest
    /\ item = EmptyItem
    /\ nrow = NoRow
    /\ nphase = "out"

Answers ==
    \/ \E r \in TriggerResponses(storage) : TriggerReturns(r)
    \/ \E f \in BOOLEAN : FetchReturns(f)

NextClicks == ClickRefresh \/ ClickAnalyze \/ Answers

SpecClicks == InitClicks /\ [][NextClicks]_vars

\* every request of the dashboard is answered, by a response or by an error
SpecClicksFair == SpecClicks /\ WF_vars(Answers)

InitApp ==
    /\ storage \in AppTables
    /\ writes = [n \in 1..Len(storage) |-> IF storage[n].analyzed_at = Null THEN 0 ELSE 1]
    /\ schema = "pk_id"
    /\ now = 0
    /\ BatchIdle
    /\ dash = DashInit
    /\ view = ViewInit
    /\ health = NoHealth
    /\ ingest = NoIngest
    /\ item = EmptyItem
    /\ nrow = NoRow
    /\ nphase = "out"

NextApp ==
    \/ \E f \in BOOLEAN : Load(f)
    \/ \E r \in TriggerResponses(storage), f \in BOOLEAN : TriggerAnalyze(r, f)
    \/ \E tab \in {"data", "health"} : setActiveTab(tab)
    \/ \E id \in 1..MaxApp, rating \in Stars : handleRatingChange(id, rating)

SpecApp == InitApp /\ [][NextApp]_vars

(***************************************************************************)
(* SystemHealth on lists of rated and unrated records                      *)
(***************************************************************************)
\* a record as DataList holds it: unrated, or with the rating of a star
RatedRecords ==
    {[MapRow(r, 1) EXCEPT !.userRating = u] :
        r \in {PendingRow, PatchedRow(PendingRow, AiScored(70), 0)},
        u \in {Undef} \cup {N(k) : k \in Stars}}

\* the component computes its statistics from the prop
RenderHealth ==
    /\ ~health.stats.rendered
    /\ health' = [health EXCEPT !.stats = SystemHealth(health.records) @@ [rendered |-> TRUE]]
    /\ UNCHANGED <<storeVars, batchVars, ingestVars, normVars, dash, view>>

InitHealth ==
    /\ storage = <<>>
    /\ writes = <<>>
    /\ schema = "pk_id"
    /\ now = 0
    /\ BatchIdle
    /\ dash = DashInit
    /\ view = ViewInit
    /\ health \in {[records |-> [n \in 1..Len(l) |-> [l[n] EXCEPT !.id = n]], stats |-> NoStats] :
                       l \in UNION {[1..n -> RatedRecords] : n \in 0..MaxList}}
    /\ ingest = NoIngest
    /\ item = EmptyItem
    /\ nrow = NoRow
    /\ nphase = "out"

NextHealth == RenderHealth

SpecHealth == InitHealth /\ [][NextHealth]_vars

(***************************************************************************)
(* Properties of the dashboard                                             *)
(***************************************************************************)
\* the analysis function reported a failure: an HTTP error status, or a 200 whose
\* failed count is positive or whose firstError is set
TriggerFailed(t) ==
    \/ t.kind = "network"
    \/ t.kind = "http" /\ (t.status \notin 200..299 \/ t.failed > 0 \/ t.firstError)

\* C17: whenever the analysis trigger reports a failure the dashboard shows a
\* failure notification and does not report the run as successful; a failed
\* records fetch sets the error, leaves the loaded records in place and ends with
\* loading = false.
C17_FailuresAreShown ==
    [][/\ TriggerFailed(dash'.trigger) =>
              /\ dash'.analyzeMsg.kind = "failed"
              /\ dash'.analyzedCount = Null
       /\ (dash' # dash /\ ~dash'.fetchOk) =>
              /\ dash'.err
              /\ dash'.records = dash.records
              /\ ~dash'.loading]_vars

\* two-hundredths of the confidence the specification gives a score (hundredths)
ConfidenceRequired(score) ==
    IF score.t # "number" THEN 100
    ELSE IF score.v[1] <= -100 THEN 0
    ELSE IF score.v[1] >= 100 THEN 200
    ELSE score.v[1] + 100

\* C18: the confidence fetchRecords computes for a row is clamp((score + 1) / 2,
\* 0, 1) when sentiment_score is a number and 0.5 when it is null, hence in [0, 1].
C18_ConfidenceIsClampedHalfShift ==
    (dash.records.t = "array" /\ dash.fetchOk) =>
        \A n \in 1..Len(dash.records.v) :
            LET r == dash.records.v[n]
            IN  /\ r.analysis.confidence = ConfidenceRequired(storage[r.id].sentiment_score)
                /\ r.analysis.confidence \in 0..200

\* C18 witness: the records loaded hold a pending row at 0.5, a row of score -1.5
\* at 0 and a row of score 1.5 at 1.
C18_Witness ==
    /\ dash.records.t = "array"
    /\ dash.fetchOk
    /\ Len(dash.records.v) = 3
    /\ \E k, m, n \in 1..3 :
           /\ storage[dash.records.v[k].id].sentiment_score = Null
           /\ dash.records.v[k].analysis.confidence = 100
           /\ storage[dash.records.v[m].id].sentiment_score = N(-150)
           /\ dash.records.v[m].analysis.confidence = 0
           /\ storage[dash.records.v[n].id].sentiment_score = N(150)
           /\ dash.records.v[n].analysis.confidence = 200

\* the rows behind the loaded records are all analyzed
AllAnalyzed == \A n \in 1..Len(dash.records.v) : storage[dash.records.v[n].id].analyzed_at # Null

\* C19: the health status is "no data" for zero records, "healthy" exactly when
\* every record is analyzed and avgConfidence > 0.85, and "degraded" otherwise.
C19_StatusOfRecords ==
    (dash.records.t = "array" /\ dash.fetchOk) =>
        LET h == SystemHealth(dash.records.v)
        IN  /\ Len(dash.records.v) = 0 => h.status = "No Data"
            /\ Len(dash.records.v) > 0 =>
                   /\ h.status \in {"healthy", "degraded"}
                   /\ h.status = "healthy" <=>
                          (AllAnalyzed /\ h.sumConfidence > 170 * Len(dash.records.v))

\* C20: analyzedRecords is the number of fetched rows whose analyzed_at is set, so
\* a fetch that holds a pending row never yields the status "healthy".
C20_AnalyzedCountsAnalyzedRows ==
    (dash.records.t = "array" /\ dash.fetchOk) =>
        LET h == SystemHealth(dash.records.v)
        IN  /\ h.analyzedRecords =
                   Cardinality({n \in 1..Len(dash.records.v) :
                                    storage[dash.records.v[n].id].analyzed_at # Null})
            /\ ~AllAnalyzed => h.status # "healthy"

PositionOf(list, id) == CHOOSE n \in 1..Len(list) : list[n].id = id

\* a sorts before b by confidence, then by created_at, both descending
Before(a, b) ==
    \/ a.analysis.confidence > b.analysis.confidence
    \/ /\ a.analysis.confidence = b.analysis.confidence
       /\ getTime(a.created_at) > getTime(b.created_at)

SameKeys(a, b) ==
    /\ a.analysis.confidence = b.analysis.confidence
    /\ getTime(a.created_at) = getTime(b.created_at)

\* the reorderings of a list
Reorderings(list) ==
    {[n \in 1..Len(list) |-> list[p[n]]] :
        p \in {q \in [1..Len(list) -> 1..Len(list)] :
                  \A k, m \in 1..Len(list) : k # m => q[k] # q[m]}}

\* C22: with sort = confidence the displayed list is a permutation of the filtered
\* records in non-increasing confidence, equal confidences in non-increasing
\* created_at; the result does not depend on the input order except among records
\* equal in both, which keep their input order.
C22_SortedByConfidenceThenDate ==
    (view.mounted /\ view.sortBy = "confidence") =>
        LET f == filteredRecords(view.localRecords, view.filterSentiment)
            d == sortedRecords(view)
        IN  /\ Len(d) = Len(f)
            /\ \A n \in 1..Len(f) : \E k \in 1..Len(d) : d[k] = f[n]
            /\ \A k, m \in 1..Len(d) :
                   k < m => /\ ~Before(d[m], d[k])
                            /\ SameKeys(d[k], d[m]) =>
                                   PositionOf(f, d[k].id) < PositionOf(f, d[m].id)
            /\ \A g \in Reorderings(f) :
                   \A k \in 1..Len(d) : SameKeys(ArraySort(g, "confidence")[k], d[k])

\* C22 witness: three records are displayed by confidence; the input held the
\* lower confidence first and, within the same confidence, the older one first,
\* and two records are equal in both.
C22_Witness ==
    /\ view.mounted /\ view.sortBy = "confidence"
    /\ LET f == filteredRecords(view.localRecords, view.filterSentiment)
           d == sortedRecords(view)
       IN  /\ Len(d) = 3
           /\ d # f
           /\ \E k, m \in 1..3 : k < m /\ Before(f[m], f[k])
                                   /\ f[k].analysis.confidence = f[m].analysis.confidence
           /\ \E k, m \in 1..3 : k < m /\ SameKeys(d[k], d[m])

(***************************************************************************)
(* Properties of SystemHealth                                              *)
(***************************************************************************)
\* the positions of the records that carry a rating
Carrying(records) == {n \in 1..Len(records) : records[n].userRating # Undef}

RECURSIVE SumOver(_, _)
SumOver(records, positions) ==
    IF positions = {} THEN 0
    ELSE LET n == CHOOSE k \in positions : TRUE
         IN  records[n].userRating.v[1] + SumOver(records, positions \ {n})

\* C23: avgUserRating is the mean of userRating over exactly the records that
\* carry a rating, and 0 when no record carries one.
C23_AvgUserRatingOverRatedRecords ==
    health.stats.rendered =>
        LET c == Carrying(health.records)
            a == health.stats.avgUserRating
        IN  /\ a.t = "number"
            /\ health.stats.ratedRecords = Cardinality(c)
            /\ c = {} => a.num = 0
            /\ c # {} => a.num * Cardinality(c) = SumOver(health.records, c) * a.den

\* C23 witness: of three records one is unrated, one has one star and one five;
\* avgUserRating is 6 / 2.
C23_Witness ==
    /\ health.stats.rendered
    /\ Len(health.records) = 3
    /\ \E k, m, n \in 1..3 :
           /\ health.records[k].userRating = Undef
           /\ health.records[m].userRating = N(1)
           /\ health.records[n].userRating = N(5)
    /\ health.stats.avgUserRating.num = 6
    /\ health.stats.avgUserRating.den = 2

(***************************************************************************)
(* Properties of the backoff                                               *)
(***************************************************************************)
\* C24: the wait between failed attempt k and attempt k + 1 (k = 1, 2) is
\* 300 * 2^(k - 1) ms plus a jitter of 0..199 ms, and a wait is taken only when a
\* further attempt follows: none after the last attempt, none after a failure that
\* is not retried.
C24_BackoffOnlyBeforeAnotherAttempt ==
    \A s \in Slots : \A k \in 1..Len(waited[s]) :
        LET w == waited[s][k]
        IN  /\ w.after \in {1, 2}
            /\ w.delay - 300 * 2^(w.after - 1) \in 0..199
            /\ w.next

(***************************************************************************)
(* Properties of the last-resort scan                                      *)
(***************************************************************************)
\* the fields pickContent reads before the scan
TargetedFields == {"Title", "Description", "SourceName", "Published_time"}

\* the fields of the item, outside the targeted ones and Image, that hold text
\* within the length ceiling
TextElsewhere(o) ==
    {k \in Fields \ (TargetedFields \cup {"Image"}) :
        isStr(o[k]) /\ Len(o[k].v) <= FieldCeil /\ stripHtml(o[k].v) # <<>>}

\* C25: an item whose Title, Description and context fields contribute no text
\* after tag stripping, but which holds text in another string field (not Image,
\* within the length ceiling), is accepted: the last-resort scan runs and the
\* content of the row is taken from those other fields.
C25_ScanWhenTargetedFieldsGiveNoText ==
    (/\ nphase = "out"
     /\ stripHtml(Trim(Join(TargetedParts(item), <<" ">>))) = <<>>
     /\ TextElsewhere(item) # {}) =>
        /\ nrow # NoRow
        /\ \A n \in 1..Len(nrow) :
               nrow[n].content
                   = Slice(stripHtml(Trim(Join(TargetedParts(item) \o ScanFields(item, 1),
                                               <<" ">>))), ContentCap)

(***************************************************************************)
(* Properties of the counts (SpecQueue: the request on slot 1)             *)
(***************************************************************************)
\* the rows fetched by the run that are analyzed now: those its PATCHes reached
PatchedOf(s) == {k \in 1..Len(pending[s]) : storage[pending[s][k]].analyzed_at # Null}

\* the rows of the run that were attempted and are not patched
UnpatchedOf(s) == called[s] \ PatchedOf(s)

\* the loop of the run ended before its last row
EndedEarly(s) == Len(log[s]) < Len(pending[s])

\* C26: in every batch response processed is the number of rows patched by the
\* invocation and failed the number of rows attempted but not patched;
\* processed + failed <= rows fetched <= the batch limit (20 in the source), with
\* equality to the rows fetched unless the loop ended early; a row counted in
\* failed keeps analyzed_at = null.
C26_CountsMatchPatches ==
    (pc[1] = "done" /\ resp[1].body = "counts") =>
        /\ resp[1].processed = Cardinality(PatchedOf(1))
        /\ resp[1].failed = Cardinality(UnpatchedOf(1))
        /\ resp[1].processed + resp[1].failed <= Len(pending[1])
        /\ Len(pending[1]) <= BatchLimit
        /\ ~EndedEarly(1) => resp[1].processed + resp[1].failed = Len(pending[1])
        /\ \A k \in 1..Len(log[1]) :
               log[1][k] # "ok" => storage[pending[1][k]].analyzed_at = Null

\* C26 witness: the table holds more pending rows than the limit; the run fetched
\* as many as the limit, patched one and failed on another without ending early.
C26_Witness ==
    /\ pc[1] = "done" /\ resp[1].body = "counts"
    /\ Len(storage) > BatchLimit
    /\ Len(pending[1]) = BatchLimit
    /\ resp[1].processed = 1
    /\ resp[1].failed = 1
    /\ ~EndedEarly(1)
    /\ \E k \in 1..Len(log[1]) : log[1][k] = "other"

(***************************************************************************)
(* Properties of the analysis fields (Spec: ingest calls and analysis runs)*)
(***************************************************************************)
AnalysisFields == {"summary", "keywords", "sentiment", "sentiment_score", "analyzed_at"}

FullyUnanalyzed(row) == \A k \in AnalysisFields : row[k] = Null
FullyAnalyzed(row) == \A k \in AnalysisFields : row[k] # Null

Attempted(id) == \E k \in called[1] : pending[1][k] = id

\* a run ended on quota exhaustion, or could not select the pending rows
QuotaOrSelectFailure ==
    \/ \E k \in 1..Len(log[1]) : log[1][k] = "quota_or_429"
    \/ resp[1].body = "error"

\* C28: when the trigger is invoked again and again, every pending row is
\* eventually attempted, also when more rows than the batch limit (20 in the
\* source) are older and fail on every run with a non-quota error.  (Runs that
\* meet a quota failure or cannot select the pending rows are left aside.)
C28_EveryPendingRowEventuallyAttempted ==
    \A id \in 1..(BatchLimit + 1) :
        id <= Len(storage) => <>(Attempted(id) \/ QuotaOrSelectFailure)

(***************************************************************************)
(* Properties of the ratings (SpecApp)                                     *)
(***************************************************************************)
\* the ratings given to records that are loaded
GivenOf(records, given) == {g \in given : \E n \in 1..Len(records) : records[n].id = g[1]}

RECURSIVE SumGiven(_)
SumGiven(given) ==
    IF given = {} THEN 0
    ELSE LET g == CHOOSE x \in given : TRUE
         IN  g[2] + SumGiven(given \ {g})

\* C30: handleRatingChange(id, rating) changes the userRating of the record of
\* that id and nothing else; the ratings given in the data list are counted by
\* the health view (rated count, avgUserRating) and are still on the records of
\* the list after a tab switch or a reload of the records.
C30_RatingsReachHealthAndPersist ==
    [][/\ view'.given # view.given =>
              /\ dash' = dash
              /\ [view' EXCEPT !.localRecords = <<>>, !.given = {}]
                     = [view EXCEPT !.localRecords = <<>>, !.given = {}]
              /\ Len(view'.localRecords) = Len(view.localRecords)
              /\ \E g \in view'.given :
                     \A n \in 1..Len(view.localRecords) :
                         view'.localRecords[n] =
                             IF view.localRecords[n].id = g[1]
                             THEN [view.localRecords[n] EXCEPT !.userRating = N(g[2])]
                             ELSE view.localRecords[n]
       /\ HealthShown'.rendered =>
              LET g == GivenOf(dash'.records.v, view'.given)
              IN  /\ HealthShown'.ratedRecords = Cardinality(g)
                  /\ g # {} => HealthShown'.avgUserRating.num * Cardinality(g)
                                   = SumGiven(g) * HealthShown'.avgUserRating.den
       /\ view'.mounted =>
              \A g \in GivenOf(dash'.records.v, view'.given) :
                  \E n \in 1..Len(view'.localRecords) :
                      /\ view'.localRecords[n].id = g[1]
                      /\ view'.localRecords[n].userRating = N(g[2])]_vars

(***************************************************************************)
(* Properties of the requests of the dashboard (SpecClicksFair)            *)
(***************************************************************************)
InFlight == dash.inflight.fetch + dash.inflight.post

\* C29: at most one request of the dashboard is in flight; Analyze and Refresh
\* start nothing while loading or analyzing is true; a successful trigger is
\* followed by exactly one reload of the records before analyzing returns to
\* false; and loading and analyzing always return to false.
C29_OneRequestInFlight ==
    /\ [](InFlight <= 1)
    /\ [](InFlight > 0 => Disabled(dash))
    /\ [][/\ (dash.analyzing /\ ~dash'.analyzing /\ dash'.analyzeMsg.kind = "ok") =>
                 /\ dash'.reloads = 1
                 /\ dash.inflight.fetch = 1 /\ dash'.inflight.fetch = 0
          /\ (dash'.inflight.fetch > dash.inflight.fetch /\ dash.tpc = "idle") =>
                 ~dash.loading /\ ~dash.analyzing
          /\ dash'.inflight.post > dash.inflight.post =>
                 ~dash.loading /\ ~dash.analyzing]_vars
    /\ (dash.loading \/ dash.analyzing) ~> (~dash.loading /\ ~dash.analyzing)

\* C29 witness: the trigger has succeeded and its reload is the one request in
\* flight, with loading and analyzing both true.
C29_Witness ==
    /\ dash.tpc = "reload"
    /\ dash.trigger.status = 200
    /\ dash.loading /\ dash.analyzing
    /\ dash.inflight = [fetch |-> 1, post |-> 0]
    /\ dash.reloads = 1

====
